---- MODULE Spec2Model ----
(***************************************************************************)
(* A model of the merkledb key codec (Key, Token), of the proof iterator    *)
(* (newProofIterator, proofIterator.Next), of the node codec exercised by   *)
(* node_test.go, and of the platform chain's ProposalTxExecutor.            *)
(*                                                                          *)
(* The state machines share the module's variables; each specification     *)
(* drives one of them and leaves the variables of the others at their idle  *)
(* values:                                                                  *)
(*   SpecKey, SpecKeyOps, SpecKeyPrefix  calls of the Key operations on a  *)
(*               current key k                                              *)
(*   SpecConfig  a trie configured with a branch factor, building tokens   *)
(*   SpecTrie  a trie under insert, delete, computeRoot and getProof       *)
(*   SpecIter  one proof iterator, built from a proof and a start key      *)
(*   SpecNode  a root node that gets children, is serialized and parsed    *)
(*   SpecExec  a ProposalTxExecutor of the platform chain executing an     *)
(*             AdvanceTimeTx or a RewardValidatorTx                         *)
(*   SpecWeight  GetMaxWeight on a validator and its delegators            *)
(***************************************************************************)
EXTENDS Integers, Sequences, FiniteSets, TLC

VARIABLES
    k,          \* SpecKey: the current Key, [length, value]
    kmem,       \* SpecKey: the memory k.value points into: "fresh" or "caller"
    buf,        \* SpecKey: the caller's byte slice last handed to ToKey
    call,       \* SpecKey: the last operation called, its arguments and result
    proof,      \* SpecIter: the proof the iterator was built from
    start,      \* SpecIter: the start key the iterator was built with
    iter,       \* SpecIter: the proofIterator struct
    ret,        \* SpecIter: what the last Next call returned ("none" before)
    returned,   \* SpecIter: the pairs of the Next calls that returned true
    calls,      \* SpecIter: the number of Next calls made, modulo 2
    root,       \* SpecNode: the root node under construction
    data,       \* SpecNode: the bytes root.bytes() produced
    nodeCall,   \* SpecNode: the last node operation called and its result
    config,     \* SpecConfig: the configured branch factor and the last call
    trie,       \* SpecTrie: the nodes of the trie, by their path
    trieCall,   \* SpecTrie: the last getProof call, its proof and its verification
    backend,    \* SpecExec: the executor's Config and clock
    onCommit,   \* SpecExec: ProposalTxExecutor.OnCommitState; SpecWeight: the chain state
    onAbort,    \* SpecExec: ProposalTxExecutor.OnAbortState
    prefersCommit, \* SpecExec: ProposalTxExecutor.PrefersCommit
    txCall,     \* SpecExec: the transaction last executed and the error it returned
    weightCall  \* SpecWeight: the last GetMaxWeight call and its result

keyVars == <<k, kmem, buf, call>>
iterVars == <<proof, start, iter, ret, returned, calls>>
nodeVars == <<root, data, nodeCall>>
configVars == <<config>>
trieVars == <<trie, trieCall>>
execVars == <<backend, onCommit, onAbort, prefersCommit, txCall, weightCall>>
vars == <<k, kmem, buf, call, proof, start, iter, ret, returned, calls, root, data, nodeCall,
          config, trie, trieCall, backend, onCommit, onAbort, prefersCommit, txCall,
          weightCall>>

(***************************************************************************)
(* Bounds of the model.                                                     *)
(***************************************************************************)
\* Keys built by Append and Take carry at most this many bits.
MaxKeyLen == 9
\* ToKey is called on byte slices of at most this many bytes.
MaxToKeyBytes == 2

(***************************************************************************)
(* Bytes: Go's uint8 arithmetic.                                            *)
(***************************************************************************)
Byte == 0..255

\* b << s on a byte: the bits shifted out are lost.
Shl(b, s) == (b * (2 ^ s)) % 256

\* b >> s on a byte.
Shr(b, s) == b \div (2 ^ s)

\* Bit i of b, counted from the least significant bit.
BitOf(b, i) == (b \div (2 ^ i)) % 2

RECURSIVE BitOrFrom(_, _, _)
BitOrFrom(a, b, i) ==
    IF i > 7 THEN 0
    ELSE (IF BitOf(a, i) = 1 \/ BitOf(b, i) = 1 THEN 2 ^ i ELSE 0) + BitOrFrom(a, b, i + 1)

\* a | b on bytes.
BitOr(a, b) == BitOrFrom(a, b, 0)

RECURSIVE BitAndFrom(_, _, _)
BitAndFrom(a, b, i) ==
    IF i > 7 THEN 0
    ELSE (IF BitOf(a, i) = 1 /\ BitOf(b, i) = 1 THEN 2 ^ i ELSE 0) + BitAndFrom(a, b, i + 1)

\* a & b on bytes.
BitAnd(a, b) == BitAndFrom(a, b, 0)

\* make([]byte, n)
ZeroBytes(n) == [i \in 1..n |-> 0]

\* copy(dst, src): the first min(len(dst), len(src)) bytes of src over dst.
CopyInto(dst, src) ==
    [i \in 1..Len(dst) |-> IF i <= Len(src) THEN src[i] ELSE dst[i]]

\* strings.HasPrefix(s, p)
StringsHasPrefix(s, p) == Len(p) <= Len(s) /\ SubSeq(s, 1, Len(p)) = p

\* The value a call that panics (index out of range) is recorded with.
Panic == 0 - 1

(***************************************************************************)
(* BranchFactor, Token.                                                     *)
(***************************************************************************)
ValidBranchFactors == {2, 4, 16, 256}

BitsPerToken(bf) ==
    CASE bf = 2 -> 1
      [] bf = 4 -> 2
      [] bf = 16 -> 4
      [] bf = 256 -> 8
      [] OTHER -> 0 - 1

NewToken(val, branchFactor) == [value |-> val, length |-> BitsPerToken(branchFactor)]

ErrInvalidTokenConfig == "ErrInvalidTokenConfig"

\* A nil error.
NilError == [wraps |-> "nil", arg |-> 0]

\* fmt.Errorf("%w: %d", err, arg): an error that wraps err.
Errorf(err, arg) == [wraps |-> err, arg |-> arg]

\* errors.Is(err, target)
ErrorsIs(err, target) == err.wraps = target

\* Valid accepting 8 as well.
Valid_Accept8(bf) ==
    IF bf \in ValidBranchFactors \cup {8} THEN NilError
    ELSE Errorf(ErrInvalidTokenConfig, bf)

\* BranchFactor.Valid
Valid(bf) ==
    IF bf \in ValidBranchFactors THEN NilError
    ELSE Errorf(ErrInvalidTokenConfig, bf)

(***************************************************************************)
(* Key: [length |-> number of bits, value |-> the bytes of the string].     *)
(* Go indexes from 0, sequences from 1: value[i] in Go is value[i + 1].     *)
(***************************************************************************)
EmptyKey == [length |-> 0, value |-> <<>>]

bytesNeeded(bits) == (bits \div 8) + (IF bits % 8 # 0 THEN 1 ELSE 0)

dualBitIndex(shift) == (8 - shift) % 8

\* slices.Clone: a new allocation holding the same bytes.
slicesClone(slice) == [mem |-> "fresh", bytes |-> slice.bytes]

\* toKey keeps the memory of the slice it is given (byteSliceToString does not
\* copy).
toKey(keyBytes) ==
    [key |-> [length |-> Len(keyBytes.bytes) * 8, value |-> keyBytes.bytes],
     mem |-> keyBytes.mem]

\* ToKey without the copy: the key aliases the caller's slice.
ToKey_NoClone(keyBytes) == toKey(keyBytes)

ToKey(keyBytes) == toKey(slicesClone(keyBytes))

\* Key.Bytes: the bytes of the string, not copied.
Bytes(key) == key.value

remainderBitCount(key) == key.length % 8

\* HasPrefix comparing the partial last byte of the prefix without the mask.
HasPrefix_NoMask(key, prefix) ==
    IF key.length < prefix.length THEN FALSE
    ELSE StringsHasPrefix(key.value, prefix.value)

HasPrefix(key, prefix) ==
    IF key.length < prefix.length THEN FALSE
    ELSE IF remainderBitCount(prefix) = 0
         THEN StringsHasPrefix(key.value, prefix.value)
    ELSE LET remainderBitsMask == Shr(255, remainderBitCount(prefix))
             n == Len(prefix.value)
             prefixRemainderTokens == BitOr(prefix.value[n], remainderBitsMask)
             remainderTokens == BitOr(key.value[n], remainderBitsMask)
         IN  IF prefixRemainderTokens # remainderTokens THEN FALSE
             ELSE StringsHasPrefix(key.value, SubSeq(prefix.value, 1, n - 1))

HasStrictPrefix(key, prefix) == key # prefix /\ HasPrefix(key, prefix)

\* Token shifting by the bit index itself instead of its dual.
Token_NoDual(key, bitIndex, tokenBitSize) ==
    IF bitIndex \div 8 >= Len(key.value) THEN Panic
    ELSE BitAnd(Shr(key.value[(bitIndex \div 8) + 1], (bitIndex + tokenBitSize) % 8),
                Shr(255, dualBitIndex(tokenBitSize)))

\* Key.Token; indexing past the string panics.
Token(key, bitIndex, tokenBitSize) ==
    IF bitIndex \div 8 >= Len(key.value) THEN Panic
    ELSE LET storageByte == key.value[(bitIndex \div 8) + 1]
             shifted == Shr(storageByte, dualBitIndex((bitIndex + tokenBitSize) % 8))
         IN  BitAnd(shifted, Shr(255, dualBitIndex(tokenBitSize)))

\* appendIntoBuffer shifting the token by the bit count instead of its dual.
appendIntoBuffer_NoDual(key, buffer, token) ==
    LET copied == CopyInto(buffer, key.value)
        n == Len(buffer)
    IN  [copied EXCEPT ![n] =
            BitOr(copied[n], Shl(token.value, (key.length + token.length) % 8))]

\* appendIntoBuffer returns the buffer it was given, filled.
appendIntoBuffer(key, buffer, token) ==
    LET copied == CopyInto(buffer, key.value)
        n == Len(buffer)
    IN  [copied EXCEPT ![n] =
            BitOr(copied[n], Shl(token.value, dualBitIndex((key.length + token.length) % 8)))]

\* Append into a buffer one byte too long.
KeyAppend_Oversize(key, token) ==
    LET buffer == ZeroBytes(bytesNeeded(key.length + token.length) + 1)
    IN  [length |-> key.length + token.length,
         value |-> appendIntoBuffer(key, buffer, token)]

\* Key.Append (Append is the sequence operator of Sequences).
KeyAppend(key, token) ==
    LET buffer == ZeroBytes(bytesNeeded(key.length + token.length))
    IN  [length |-> key.length + token.length,
         value |-> appendIntoBuffer(key, buffer, token)]

\* Take without the mask on the last byte.
Take_NoMask(key, bitsToTake) ==
    IF key.length <= bitsToTake THEN [key |-> key, shared |-> TRUE]
    ELSE [key |-> [length |-> bitsToTake,
                   value |-> SubSeq(key.value, 1, bytesNeeded(bitsToTake))],
          shared |-> bitsToTake % 8 = 0]

\* Take: result is the key and whether its value shares the memory of key.
Take(key, bitsToTake) ==
    IF key.length <= bitsToTake THEN [key |-> key, shared |-> TRUE]
    ELSE IF bitsToTake % 8 = 0
         THEN [key |-> [length |-> bitsToTake,
                        value |-> SubSeq(key.value, 1, bitsToTake \div 8)],
               shared |-> TRUE]
    ELSE LET buffer == CopyInto(ZeroBytes(bytesNeeded(bitsToTake)), key.value)
             n == Len(buffer)
             masked == [buffer EXCEPT ![n] =
                           BitAnd(buffer[n], Shl(255, dualBitIndex(bitsToTake % 8)))]
         IN  [key |-> [length |-> bitsToTake, value |-> masked], shared |-> FALSE]

\* shiftCopy(dst, src, shift): dst after the call.
shiftCopy(dst, src, shift) ==
    LET dualShift == dualBitIndex(shift)
    IN  [i \in 1..Len(dst) |->
            IF i <= Len(src) - 1
            THEN BitOr(Shl(src[i], shift), Shr(src[i + 1], dualShift))
            ELSE IF i = Len(src) THEN Shl(src[i], shift)
            ELSE dst[i]]

\* Skip dropping whole bytes only.
Skip_NoShift(key, bitsToSkip) ==
    IF key.length <= bitsToSkip THEN [key |-> EmptyKey, shared |-> FALSE]
    ELSE LET rest == SubSeq(key.value, (bitsToSkip \div 8) + 1, Len(key.value))
             length == key.length - bitsToSkip
         IN  [key |-> [length |-> length, value |-> SubSeq(rest, 1, bytesNeeded(length))],
              shared |-> bitsToSkip % 8 = 0]

\* Skip: result is the key and whether its value shares the memory of key.
Skip(key, bitsToSkip) ==
    IF key.length <= bitsToSkip THEN [key |-> EmptyKey, shared |-> FALSE]
    ELSE LET rest == SubSeq(key.value, (bitsToSkip \div 8) + 1, Len(key.value))
             length == key.length - bitsToSkip
         IN  IF bitsToSkip % 8 = 0
             THEN [key |-> [length |-> length, value |-> rest], shared |-> TRUE]
             ELSE [key |-> [length |-> length,
                            value |-> shiftCopy(ZeroBytes(bytesNeeded(length)), rest,
                                                bitsToSkip % 8)],
                   shared |-> FALSE]

RECURSIVE StringLess(_, _)
\* a < b of two Go strings: byte by byte, a proper prefix before its
\* extensions.
StringLess(a, b) ==
    IF Len(b) = 0 THEN FALSE
    ELSE IF Len(a) = 0 THEN TRUE
    ELSE IF a[1] # b[1] THEN a[1] < b[1]
    ELSE StringLess(Tail(a), Tail(b))

Greater(key, other) ==
    StringLess(other.value, key.value)
    \/ (key.value = other.value /\ key.length > other.length)

\* Less comparing the buffers only.
Less_NoTieBreak(key, other) == StringLess(key.value, other.value)

Less(key, other) ==
    StringLess(key.value, other.value)
    \/ (key.value = other.value /\ key.length < other.length)

\* AppendExtend without the bits of the extension that fill the partial byte.
AppendExtend_NoFill(key, token, extensionKey) ==
    LET appendBytes == bytesNeeded(key.length + token.length)
        totalBitLength == key.length + token.length + extensionKey.length
        buffer == ZeroBytes(bytesNeeded(totalBitLength))
        head == appendIntoBuffer(key, SubSeq(buffer, 1, appendBytes), token)
        tail == SubSeq(buffer, appendBytes + 1, Len(buffer))
        bitsRemainder == (key.length + token.length) % 8
    IN  [length |-> totalBitLength,
         value |-> IF extensionKey.length = 0 THEN head \o tail
                   ELSE IF bitsRemainder = 0
                        THEN head \o CopyInto(tail, extensionKey.value)
                   ELSE head \o shiftCopy(tail, extensionKey.value,
                                          dualBitIndex(bitsRemainder))]

\* Key.AppendExtend. buffer[:appendBytes] is head, extensionBuffer[1:] is
\* tail, extensionBuffer[0] the last byte of head; the result's value is the
\* buffer, so it holds what is written after the result is built.
AppendExtend(key, token, extensionKey) ==
    LET appendBytes == bytesNeeded(key.length + token.length)
        totalBitLength == key.length + token.length + extensionKey.length
        buffer == ZeroBytes(bytesNeeded(totalBitLength))
        head == appendIntoBuffer(key, SubSeq(buffer, 1, appendBytes), token)
        tail == SubSeq(buffer, appendBytes + 1, Len(buffer))
        bitsRemainder == (key.length + token.length) % 8
    IN  [length |-> totalBitLength,
         value |-> IF extensionKey.length = 0 THEN head \o tail
                   ELSE IF bitsRemainder = 0
                        THEN head \o CopyInto(tail, extensionKey.value)
                   ELSE [head EXCEPT ![appendBytes] =
                            BitOr(head[appendBytes],
                                  Shr(extensionKey.value[1], bitsRemainder))]
                        \o shiftCopy(tail, extensionKey.value,
                                     dualBitIndex(bitsRemainder))]

(***************************************************************************)
(* The bits of a key, most significant bit of byte 0 first: what the key    *)
(* operations are specified against.                                        *)
(***************************************************************************)
Bits(key) ==
    [i \in 1..key.length |-> BitOf(key.value[((i - 1) \div 8) + 1], 7 - ((i - 1) % 8))]

RECURSIVE BitsValue(_)
\* The number a bit sequence denotes, first bit most significant.
BitsValue(bits) ==
    IF Len(bits) = 0 THEN 0
    ELSE 2 * BitsValue(SubSeq(bits, 1, Len(bits) - 1)) + bits[Len(bits)]

\* The key of a bit sequence: ceil(n/8) bytes, unused bits zero.
KeyOfBits(bits) ==
    [length |-> Len(bits),
     value |-> [j \in 1..bytesNeeded(Len(bits)) |->
                  BitsValue([i \in 1..8 |->
                      IF 8 * (j - 1) + i <= Len(bits) THEN bits[8 * (j - 1) + i] ELSE 0])]]

FlipBit(bits, i) == [bits EXCEPT ![i] = 1 - bits[i]]

\* The keys a key is compared with: its prefixes, its prefixes with one bit
\* changed, and its extensions by one bit.
RelatedKeys(key) ==
    LET bits == Bits(key)
    IN  {KeyOfBits(SubSeq(bits, 1, n)) : n \in 0..Len(bits)}
        \cup {KeyOfBits(FlipBit(SubSeq(bits, 1, n), i)) :
                 <<n, i>> \in {p \in (1..Len(bits)) \X (1..Len(bits)) : p[2] <= p[1]}}
        \cup {KeyOfBits(bits \o <<b>>) : b \in {0, 1}}

(***************************************************************************)
(* SpecKey: calls of the Key operations.                                    *)
(***************************************************************************)
SampleBytes == {0, 1, 128, 165, 255}

RECURSIVE SeqsOver(_, _)
\* The sequences over S of length exactly n.
SeqsOver(S, n) ==
    IF n = 0 THEN {<<>>}
    ELSE {Append(s, x) : s \in SeqsOver(S, n - 1), x \in S}

\* The byte slices ToKey is called on: every slice of at most one byte, and
\* the longer slices over SampleBytes.
ToKeyInputs ==
    {<<>>} \cup {<<b>> : b \in Byte}
    \cup UNION {SeqsOver(SampleBytes, n) : n \in 2..MaxToKeyBytes}

TokenWidths == {BitsPerToken(bf) : bf \in ValidBranchFactors}

\* The tokens of the valid branch factors: the digits 0..bf-1.
Tokens == UNION {{NewToken(v, bf) : v \in 0..(bf - 1)} : bf \in ValidBranchFactors}

NoToken == [value |-> 0, length |-> 0]

Called(op, recv, q, t, a, b, bytes, out) ==
    [op |-> op, k |-> recv, q |-> q, t |-> t, a |-> a, b |-> b, bytes |-> bytes,
     out |-> out]

idleKey == k = EmptyKey /\ kmem = "fresh" /\ buf = <<>>
           /\ call = Called("none", EmptyKey, EmptyKey, NoToken, 0, 0, <<>>, 0)
idleIter == proof = <<>> /\ start = <<>> /\ iter = <<>> /\ ret = "none" /\ returned = <<>>
            /\ calls = 0
idleNode == root = <<>> /\ data = <<>> /\ nodeCall = <<>>

\* No trie is configured and nothing has been called.
NoConfig ==
    [op |-> "none", db |-> 0, bf |-> 0, val |-> 0, err |-> NilError, bits |-> 0,
     token |-> NoToken]

idleConfig == config = NoConfig

idleTrie == trie = <<>> /\ trieCall = <<>>

idleExec ==
    /\ backend = <<>>
    /\ onCommit = <<>>
    /\ onAbort = <<>>
    /\ prefersCommit = FALSE
    /\ txCall = <<>>
    /\ weightCall = <<>>

InitKey == idleKey /\ idleIter /\ idleNode /\ idleConfig /\ idleTrie /\ idleExec

\* k := ToKey(b), the caller keeping its slice b. ToKey reads nothing of the
\* state, so it is called from the idle state only.
CallToKey ==
    /\ call.op = "none"
    /\ k = EmptyKey
    /\ \E b \in ToKeyInputs :
        LET r == ToKey([mem |-> "caller", bytes |-> b])
        IN  /\ k' = r.key
            /\ kmem' = r.mem
            /\ buf' = b
            /\ call' = Called("ToKey", EmptyKey, EmptyKey, NoToken, 0, 0, b, r.key)
            /\ UNCHANGED <<iterVars, nodeVars, configVars, trieVars, execVars>>

\* The caller overwrites one byte of the slice it handed to ToKey. A key
\* whose value points into that slice changes with it.
MutateCallerSlice ==
    /\ call.op \in {"ToKey", "MutateCallerSlice"}
    /\ \E i \in 1..Len(buf), v \in SampleBytes :
        /\ v # buf[i]
        /\ buf' = [buf EXCEPT ![i] = v]
        /\ k' = IF kmem = "caller" THEN [k EXCEPT !.value = CopyInto(k.value, buf')] ELSE k
        /\ call' = [call EXCEPT !.op = "MutateCallerSlice"]
        /\ UNCHANGED <<kmem, iterVars, nodeVars, configVars, trieVars, execVars>>

\* The caller has read the result of the last call and drops its slice.
Return ==
    /\ call.op # "none"
    /\ call' = Called("none", EmptyKey, EmptyKey, NoToken, 0, 0, <<>>, 0)
    /\ buf' = <<>>
    /\ UNCHANGED <<k, kmem, iterVars, nodeVars, configVars, trieVars, execVars>>

\* k := k.Append(t)
CallAppend ==
    /\ call.op = "none"
    /\ \E t \in Tokens :
        /\ k.length + t.length <= MaxKeyLen
        /\ k' = KeyAppend(k, t)
        /\ kmem' = "fresh"
        /\ call' = Called("Append", k, EmptyKey, t, 0, 0, <<>>, k')
        /\ UNCHANGED <<buf, iterVars, nodeVars, configVars, trieVars, execVars>>

\* k := k.Take(n)
CallTake ==
    /\ call.op = "none"
    /\ \E n \in 0..(k.length + 1) :
        LET r == Take(k, n)
        IN  /\ k' = r.key
            /\ kmem' = IF r.shared THEN kmem ELSE "fresh"
            /\ call' = Called("Take", k, EmptyKey, NoToken, n, 0, <<>>, r.key)
            /\ UNCHANGED <<buf, iterVars, nodeVars, configVars, trieVars, execVars>>

\* k.HasPrefix(q)
CallHasPrefix ==
    /\ call.op = "none"
    /\ \E q \in RelatedKeys(k) :
        /\ call' = Called("HasPrefix", k, q, NoToken, 0, 0, <<>>, HasPrefix(k, q))
        /\ UNCHANGED <<k, kmem, buf, iterVars, nodeVars, configVars, trieVars, execVars>>

\* k.HasStrictPrefix(q)
CallHasStrictPrefix ==
    /\ call.op = "none"
    /\ \E q \in RelatedKeys(k) :
        /\ call' = Called("HasStrictPrefix", k, q, NoToken, 0, 0, <<>>, HasStrictPrefix(k, q))
        /\ UNCHANGED <<k, kmem, buf, iterVars, nodeVars, configVars, trieVars, execVars>>

\* k.Token(o, w) with the token inside the key.
CallToken ==
    /\ call.op = "none"
    /\ \E w \in TokenWidths :
        \E o \in 0..(k.length - w) :
            /\ call' = Called("Token", k, EmptyKey, NoToken, o, w, <<>>, Token(k, o, w))
            /\ UNCHANGED <<k, kmem, buf, iterVars, nodeVars, configVars, trieVars, execVars>>

NextKey ==
    \/ CallToKey
    \/ MutateCallerSlice
    \/ Return
    \/ CallAppend
    \/ CallTake
    \/ CallHasPrefix
    \/ CallHasStrictPrefix
    \/ CallToken

SpecKey == InitKey /\ [][NextKey]_vars

(***************************************************************************)
(* SpecKeyOps: keys built by ToKey, Append, AppendExtend, Skip and Take,    *)
(* compared by Less and Greater, and read by Token outside their length.    *)
(***************************************************************************)
\* The lengths of the extension keys.
ExtensionLengths == {0, 1, 5, 8, 11, 16}

\* The extension keys of AppendExtend: the prefixes of one two-byte key.
ExtensionKeys ==
    {Take(ToKey([mem |-> "caller", bytes |-> <<165, 129>>]).key, n).key :
        n \in ExtensionLengths}

\* The tokens of AppendExtend: the smallest two and the largest digit of each
\* branch factor.
ExtendTokens ==
    UNION {{NewToken(v, bf) : v \in {0, 1, bf - 1}} : bf \in ValidBranchFactors}

\* r := k.Skip(n); the caller goes on with r when it is at most MaxKeyLen bits
\* long, and with k otherwise.
CallSkip ==
    /\ call.op = "none"
    /\ \E n \in 0..(k.length + 1) :
        LET r == Skip(k, n)
        IN  /\ k' = IF r.key.length <= MaxKeyLen THEN r.key ELSE k
            /\ kmem' = IF r.key.length > MaxKeyLen \/ r.shared THEN kmem ELSE "fresh"
            /\ call' = Called("Skip", k, EmptyKey, NoToken, n, 0, <<>>, r.key)
            /\ UNCHANGED <<buf, iterVars, nodeVars, configVars, trieVars, execVars>>

\* r := k.AppendExtend(t, e); the caller goes on with r when it is at most
\* MaxKeyLen bits long, and with k otherwise.
CallAppendExtend ==
    /\ call.op = "none"
    /\ \E t \in ExtendTokens, e \in ExtensionKeys :
        LET r == AppendExtend(k, t, e)
        IN  /\ k.length + t.length <= MaxKeyLen
            /\ k' = IF r.length <= MaxKeyLen THEN r ELSE k
            /\ kmem' = IF r.length <= MaxKeyLen THEN "fresh" ELSE kmem
            /\ call' = Called("AppendExtend", k, e, t, 0, 0, <<>>, r)
            /\ UNCHANGED <<buf, iterVars, nodeVars, configVars, trieVars, execVars>>

\* The keys a key is ordered against: its prefixes, its prefixes with the last
\* bit changed, itself with one bit changed, and its extensions by one bit.
OrderKeys(key) ==
    LET bits == Bits(key)
    IN  {KeyOfBits(SubSeq(bits, 1, n)) : n \in 0..Len(bits)}
        \cup {KeyOfBits(FlipBit(SubSeq(bits, 1, n), n)) : n \in 1..Len(bits)}
        \cup {KeyOfBits(FlipBit(bits, i)) : i \in 1..Len(bits)}
        \cup {KeyOfBits(bits \o <<b>>) : b \in {0, 1}}

\* k.Less(q)
CallLess ==
    /\ call.op = "none"
    /\ \E q \in OrderKeys(k) :
        /\ call' = Called("Less", k, q, NoToken, 0, 0, <<>>, Less(k, q))
        /\ UNCHANGED <<k, kmem, buf, iterVars, nodeVars, configVars, trieVars, execVars>>

\* k.Greater(q)
CallGreater ==
    /\ call.op = "none"
    /\ \E q \in OrderKeys(k) :
        /\ call' = Called("Greater", k, q, NoToken, 0, 0, <<>>, Greater(k, q))
        /\ UNCHANGED <<k, kmem, buf, iterVars, nodeVars, configVars, trieVars, execVars>>

\* k.Token(o, w) with the token not inside the key: o + w > k.Length(), o up
\* to the first bit after the last byte of the key.
CallTokenOutside ==
    /\ call.op = "none"
    /\ \E w \in TokenWidths :
        \E o \in 0..(8 * Len(k.value)) :
            /\ o + w > k.length
            /\ call' = Called("Token", k, EmptyKey, NoToken, o, w, <<>>, Token(k, o, w))
            /\ UNCHANGED <<k, kmem, buf, iterVars, nodeVars, configVars, trieVars, execVars>>

NextKeyOps ==
    \/ CallToKey
    \/ Return
    \/ CallAppend
    \/ CallAppendExtend
    \/ CallSkip
    \/ CallTake
    \/ CallLess
    \/ CallGreater
    \/ CallTokenOutside

SpecKeyOps == InitKey /\ [][NextKeyOps]_vars

(***************************************************************************)
(* SpecKeyPrefix: iteratedHasPrefix is called on the keys ToKey and Take    *)
(* build.                                                                   *)
(***************************************************************************)
\* iteratedHasPrefix is called on keys of at most this many bits.
MaxPrefixKeyLen == 16

\* The loop of iteratedHasPrefix from bit i of prefix on. The result is
\* whether the call panics (a Token index out of range) and, when it does
\* not, the boolean it returns.
RECURSIVE iteratedHasPrefixLoop(_, _, _, _, _)
iteratedHasPrefixLoop(key, prefix, bitsToSkip, tokenBitSize, i) ==
    IF i >= prefix.length THEN [panics |-> FALSE, out |-> TRUE]
    ELSE LET a == Token(key, bitsToSkip + i, tokenBitSize)
             b == Token(prefix, i, tokenBitSize)
         IN  IF a = Panic \/ b = Panic THEN [panics |-> TRUE, out |-> FALSE]
             ELSE IF a # b THEN [panics |-> FALSE, out |-> FALSE]
             ELSE iteratedHasPrefixLoop(key, prefix, bitsToSkip, tokenBitSize,
                                        i + tokenBitSize)

\* iteratedHasPrefix without the length check before the loop.
iteratedHasPrefix_NoLengthCheck(key, prefix, bitsToSkip, tokenBitSize) ==
    iteratedHasPrefixLoop(key, prefix, bitsToSkip, tokenBitSize, 0)

iteratedHasPrefix(key, prefix, bitsToSkip, tokenBitSize) ==
    IF key.length - bitsToSkip < prefix.length THEN [panics |-> FALSE, out |-> FALSE]
    ELSE iteratedHasPrefixLoop(key, prefix, bitsToSkip, tokenBitSize, 0)

\* The prefixes a key is tested against: its prefixes, its prefixes with the
\* last bit changed, and its extensions by one bit.
PrefixKeys(key) ==
    LET bits == Bits(key)
    IN  {KeyOfBits(SubSeq(bits, 1, n)) : n \in 0..Len(bits)}
        \cup {KeyOfBits(FlipBit(SubSeq(bits, 1, n), n)) : n \in 1..Len(bits)}
        \cup {KeyOfBits(bits \o <<b>>) : b \in {0, 1}}

\* k.iteratedHasPrefix(q, s, w), for the prefixes q related to k.Skip(s).
CallIteratedHasPrefix ==
    /\ call.op = "none"
    /\ k.length <= MaxPrefixKeyLen
    /\ \E s \in 0..k.length, w \in TokenWidths :
         \E q \in PrefixKeys(Skip(k, s).key) :
            /\ call' = Called("iteratedHasPrefix", k, q, NoToken, s, w, <<>>,
                              iteratedHasPrefix(k, q, s, w))
            /\ UNCHANGED <<k, kmem, buf, iterVars, nodeVars, configVars, trieVars, execVars>>

NextKeyPrefix ==
    \/ CallToKey
    \/ Return
    \/ CallTake
    \/ CallIteratedHasPrefix

SpecKeyPrefix == InitKey /\ [][NextKeyPrefix]_vars

(***************************************************************************)
(* SpecConfig: branch factors are validated, a trie is constructed with a   *)
(* branch factor, and tokens are built with the branch factor of the trie.  *)
(* config.db is the branch factor of the trie constructed last, 0 while     *)
(* there is none; the other fields of config describe the last call.        *)
(***************************************************************************)
\* The record of a call, before its arguments and results are filled in.
ConfigCall(op, bf) == [NoConfig EXCEPT !.op = op, !.bf = bf, !.db = config.db]

\* The BranchFactor values the operations are called with.
BranchFactorInputs ==
    ((0 - 1)..17) \cup {32, 64, 128, 255, 256, 257, 512, 65536}

\* bf.Valid()
CallValid ==
    /\ \E bf \in BranchFactorInputs :
        config' = [ConfigCall("Valid", bf) EXCEPT !.err = Valid(bf)]
    /\ UNCHANGED <<keyVars, iterVars, nodeVars, trieVars, execVars>>

\* bf.BitsPerToken()
CallBitsPerToken ==
    /\ \E bf \in BranchFactorInputs :
        config' = [ConfigCall("BitsPerToken", bf) EXCEPT !.bits = BitsPerToken(bf)]
    /\ UNCHANGED <<keyVars, iterVars, nodeVars, trieVars, execVars>>

\* Construction of a trie with branch factor bf: the branch factor is
\* validated, and an invalid one is rejected with the error of Valid.
NewDatabase ==
    /\ \E bf \in BranchFactorInputs :
        LET err == Valid(bf)
        IN  config' = [ConfigCall("New", bf) EXCEPT
                          !.err = err,
                          !.db = IF err = NilError THEN bf ELSE config.db]
    /\ UNCHANGED <<keyVars, iterVars, nodeVars, trieVars, execVars>>

\* NewToken(val, bf) with bf the branch factor of the trie.
CallNewToken ==
    /\ config.db # 0
    /\ \E val \in Byte :
        config' = [ConfigCall("NewToken", config.db) EXCEPT
                      !.val = val, !.token = NewToken(val, config.db)]
    /\ UNCHANGED <<keyVars, iterVars, nodeVars, trieVars, execVars>>

InitConfig == idleKey /\ idleIter /\ idleNode /\ idleConfig /\ idleTrie /\ idleExec

NextConfig ==
    \/ CallValid
    \/ CallBitsPerToken
    \/ NewDatabase
    \/ CallNewToken

SpecConfig == InitConfig /\ [][NextConfig]_vars

(***************************************************************************)
(* The proof iterator. A path is the sequence of its tokens; a ProofNode is *)
(* [KeyPath, Children], Children a map from token to child id; an id is a   *)
(* number, 0 the empty id. Go's maps are functions on the set of their      *)
(* keys; Go indexes proof from 0, sequences from 1: proof[i] in Go is       *)
(* proof[i + 1].                                                            *)
(***************************************************************************)
NodeBranchFactor == 16

EmptyPath == <<>>

EmptyID == 0

\* path.Append(token)
PathAppend(p, token) == Append(p, token)

RECURSIVE Compare(_, _)
\* path.Compare: -1, 0 or 1 as a is before, equal to or after b, token by
\* token, a proper prefix before its extensions.
Compare(a, b) ==
    IF Len(a) = 0 /\ Len(b) = 0 THEN 0
    ELSE IF Len(a) = 0 THEN 0 - 1
    ELSE IF Len(b) = 0 THEN 1
    ELSE IF a[1] < b[1] THEN 0 - 1
    ELSE IF a[1] > b[1] THEN 1
    ELSE Compare(Tail(a), Tail(b))

\* m[key] of a Go map: the zero value when key is absent.
MapGet(m, key, zero) == IF key \in DOMAIN m THEN m[key] ELSE zero

\* m[key] = v of a Go map.
MapPut(m, key, v) == [x \in (DOMAIN m) \cup {key} |-> IF x = key THEN v ELSE m[x]]

\* byte(x) of an int.
ToByte(x) == x % 256

\* The children loop of newProofIterator from childIdx on, for node i whose
\* path is after start. Returns the iterator and whether the function
\* returns here.
RECURSIVE scanChildren(_, _, _, _)
scanChildren(it, st, i, childIdx) ==
    IF childIdx >= NodeBranchFactor THEN [iter |-> it, found |-> FALSE]
    ELSE IF childIdx \notin DOMAIN it.proof[i + 1].Children
         THEN scanChildren(it, st, i, childIdx + 1)
    ELSE LET childIsNode == i # Len(it.proof) - 1 /\ it.nodeToBranchIndex[i] = childIdx
             childKey == IF childIsNode THEN it.nodeToPath[i + 1]
                         ELSE PathAppend(it.nodeToPath[i], childIdx)
         IN  IF Compare(st, childKey) <= 0
             THEN [iter |->
                      IF childIsNode
                      THEN [it EXCEPT !.nodeIndex = it.nodeIndex + 1,
                                      !.nextChildIndex = MapPut(it.nextChildIndex, i, childIdx + 1)]
                      ELSE [it EXCEPT !.nextChildIndex = MapPut(it.nextChildIndex, i, childIdx)],
                   found |-> TRUE]
             ELSE scanChildren(it, st, i, childIdx + 1)

\* The loop of newProofIterator that finds the first key to return, from
\* node i on.
RECURSIVE findFirst(_, _, _)
findFirst(it, st, i) ==
    IF i >= Len(it.proof) THEN [it EXCEPT !.exhausted = TRUE]
    ELSE LET it1 == [it EXCEPT !.nodeIndex = i]
         IN  IF Compare(st, it1.nodeToPath[i]) <= 0 THEN it1
             ELSE LET r == scanChildren(it1, st, i, 0)
                  IN  IF r.found THEN r.iter
                      ELSE findFirst([it1 EXCEPT !.nextChildIndex =
                                         MapPut(it1.nextChildIndex, i, NodeBranchFactor)],
                                     st, i + 1)

newProofIterator(pf, st) ==
    LET n == Len(pf)
        nodeToPath == [i \in 0..(n - 1) |-> pf[i + 1].KeyPath]
        nodeToBranchIndex ==
            [i \in 0..(n - 2) |-> nodeToPath[i + 1][Len(nodeToPath[i]) + 1]]
        nodeToID ==
            [i \in 1..(n - 1) |-> MapGet(pf[i].Children, nodeToBranchIndex[i - 1], EmptyID)]
        it0 == [key |-> EmptyPath,
                value |-> EmptyID,
                exhausted |-> FALSE,
                nodeIndex |-> 0,
                nextChildIndex |-> <<>>,
                proof |-> pf,
                nodeToPath |-> nodeToPath,
                nodeToBranchIndex |-> nodeToBranchIndex,
                nodeToID |-> nodeToID]
    IN  findFirst(it0, st, 0)

\* The loop of Next that looks for the next child from j on; nextChildIndex
\* keeps its zero value when the loop finds none.
RECURSIVE findNextChild(_, _)
findNextChild(node, j) ==
    IF j > NodeBranchFactor THEN 0
    ELSE IF ToByte(j) \in DOMAIN node.Children THEN j
    ELSE findNextChild(node, j + 1)

\* Next that forgets, when called exhausted, that the iterator is exhausted.
proofIteratorNext_Revive(it) ==
    IF it.exhausted
    THEN [iter |-> [it EXCEPT !.key = EmptyPath, !.value = EmptyID,
                            !.exhausted = FALSE],
          ok |-> FALSE]
    ELSE LET node == it.proof[it.nodeIndex + 1]
             visitedNode == it.nodeIndex \in DOMAIN it.nextChildIndex
             childIdx0 == MapGet(it.nextChildIndex, it.nodeIndex, 0)
             key == IF ~visitedNode THEN it.nodeToPath[it.nodeIndex]
                    ELSE PathAppend(it.nodeToPath[it.nodeIndex], ToByte(childIdx0))
             value == IF ~visitedNode THEN MapGet(it.nodeToID, it.nodeIndex, EmptyID)
                      ELSE MapGet(node.Children, ToByte(childIdx0), EmptyID)
             childIdx == IF visitedNode THEN 0 - 1 ELSE childIdx0
             nextChildIndex == findNextChild(node, childIdx + 1)
             descended ==
                 /\ it.nodeIndex # Len(it.proof) - 1
                 /\ it.nodeToBranchIndex[it.nodeIndex] = ToByte(childIdx)
                 /\ Cardinality(DOMAIN it.proof[it.nodeIndex + 2].Children) > 0
             done == ~descended /\ nextChildIndex = NodeBranchFactor
         IN  [iter |->
                 [it EXCEPT
                     !.key = key,
                     !.value = value,
                     !.nextChildIndex = MapPut(it.nextChildIndex, it.nodeIndex, nextChildIndex),
                     !.nodeIndex = IF descended THEN it.nodeIndex + 1
                                   ELSE IF done /\ it.nodeIndex # 0 THEN it.nodeIndex - 1
                                   ELSE it.nodeIndex,
                     !.exhausted = (done /\ it.nodeIndex = 0)],
              ok |-> TRUE]

\* proofIterator.Next: the iterator after the call, and what the call returns.
proofIteratorNext(it) ==
    IF it.exhausted
    THEN [iter |-> [it EXCEPT !.key = EmptyPath, !.value = EmptyID], ok |-> FALSE]
    ELSE LET node == it.proof[it.nodeIndex + 1]
             visitedNode == it.nodeIndex \in DOMAIN it.nextChildIndex
             childIdx0 == MapGet(it.nextChildIndex, it.nodeIndex, 0)
             key == IF ~visitedNode THEN it.nodeToPath[it.nodeIndex]
                    ELSE PathAppend(it.nodeToPath[it.nodeIndex], ToByte(childIdx0))
             value == IF ~visitedNode THEN MapGet(it.nodeToID, it.nodeIndex, EmptyID)
                      ELSE MapGet(node.Children, ToByte(childIdx0), EmptyID)
             childIdx == IF visitedNode THEN 0 - 1 ELSE childIdx0
             nextChildIndex == findNextChild(node, childIdx + 1)
             descended ==
                 /\ it.nodeIndex # Len(it.proof) - 1
                 /\ it.nodeToBranchIndex[it.nodeIndex] = ToByte(childIdx)
                 /\ Cardinality(DOMAIN it.proof[it.nodeIndex + 2].Children) > 0
             done == ~descended /\ nextChildIndex = NodeBranchFactor
         IN  [iter |->
                 [it EXCEPT
                     !.key = key,
                     !.value = value,
                     !.nextChildIndex = MapPut(it.nextChildIndex, it.nodeIndex, nextChildIndex),
                     !.nodeIndex = IF descended THEN it.nodeIndex + 1
                                   ELSE IF done /\ it.nodeIndex # 0 THEN it.nodeIndex - 1
                                   ELSE it.nodeIndex,
                     !.exhausted = (done /\ it.nodeIndex = 0)],
              ok |-> TRUE]

(***************************************************************************)
(* SpecIter: an iterator is built from a proof and a start key, and Next is *)
(* called on it again and again.                                            *)
(***************************************************************************)
\* Proofs have at most this many nodes, and paths at most this many tokens.
MaxNodes == 2
\* The keys of the first MaxCalls successful Next calls are recorded.
MaxCalls == 6

\* A proof and its start key are made of the tokens of one of these sets: the
\* two smallest or the two largest of the NodeBranchFactor tokens.
TokenFamilies == {{0, 1}, {NodeBranchFactor - 2, NodeBranchFactor - 1}}

\* The digest recorded for child t of the node at index i: never the empty id,
\* and different for different children.
ChildID(i, t) == 1 + i * NodeBranchFactor + t

PathsUpTo(T, n) == UNION {SeqsOver(T, l) : l \in 0..n}

\* The node at index i of a proof, with the given path and child tokens.
MakeNode(i, p, ts) == [KeyPath |-> p, Children |-> [t \in ts |-> ChildID(i, t)]]

\* The proofs of exactly n nodes over the tokens T: the root has the empty
\* path, each path is a strict prefix of the next, and each node but the last
\* has a child entry for the token that leads to the next node.
RECURSIVE ProofsOfLen(_, _)
ProofsOfLen(T, n) ==
    IF n = 1 THEN {<<MakeNode(0, EmptyPath, ts)>> : ts \in SUBSET T}
    ELSE {Append(x[1], MakeNode(n - 1, x[2], x[3])) :
             x \in {y \in ProofsOfLen(T, n - 1) \X PathsUpTo(T, MaxNodes) \X (SUBSET T) :
                     LET parent == y[1][n - 1].KeyPath
                     IN  /\ Len(y[2]) > Len(parent)
                         /\ SubSeq(y[2], 1, Len(parent)) = parent
                         /\ y[2][Len(parent) + 1] \in DOMAIN y[1][n - 1].Children}}

Proofs(T) == UNION {ProofsOfLen(T, n) : n \in 1..MaxNodes}

StartKeys(T) == PathsUpTo(T, MaxNodes)

InitIter ==
    /\ idleKey
    /\ idleNode
    /\ idleConfig
    /\ idleTrie
    /\ idleExec
    /\ \E T \in TokenFamilies :
          /\ proof \in Proofs(T)
          /\ start \in StartKeys(T)
    /\ iter = newProofIterator(proof, start)
    /\ ret = "none"
    /\ returned = <<>>
    /\ calls = 0

\* One call of Next, followed by Key() and Value() when it returned true.
CallNext ==
    LET r == proofIteratorNext(iter)
    IN  /\ iter' = r.iter
        /\ ret' = IF r.ok THEN "true" ELSE "false"
        /\ returned' = IF r.ok /\ Len(returned) < MaxCalls
                       THEN Append(returned, [key |-> r.iter.key, value |-> r.iter.value])
                       ELSE returned
        /\ calls' = (calls + 1) % 2
        /\ UNCHANGED <<proof, start, keyVars, nodeVars, configVars, trieVars, execVars>>

NextIter == CallNext

SpecIter == InitIter /\ [][NextIter]_vars

\* The caller keeps calling Next.
SpecIterFair == SpecIter /\ WF_vars(CallNext)

(***************************************************************************)
(* The node codec. A node is [key, value, children]; value is a maybe of    *)
(* bytes, children a map from token to [compressedKey, id]; an id is        *)
(* HashLength bytes. bytes() writes: the value presence flag and the value  *)
(* bytes, the child count, then per child in token order the token index,   *)
(* the compressed key and the child id. Numbers and flags take one byte,    *)
(* byte strings and keys are preceded by their length.                      *)
(***************************************************************************)
\* The bytes of an id.
HashLength == 2

Nothing == [has |-> FALSE, bytes |-> <<>>]

Some(bs) == [has |-> TRUE, bytes |-> bs]

newNode(key) == [key |-> key, value |-> Nothing, children |-> <<>>]

setValue(n, val) == [n EXCEPT !.value = val]

\* addChild: the entry of the child goes under the token that follows the
\* node's key in the child's key; its compressed key is what follows the token.
addChild(n, bf, childNode) ==
    [n EXCEPT !.children =
        MapPut(n.children, Token(childNode.key, n.key.length, BitsPerToken(bf)),
               [compressedKey |-> Skip(childNode.key, n.key.length + BitsPerToken(bf)).key,
                id |-> childNode.id])]

encodeBool(b) == <<IF b THEN 1 ELSE 0>>

encodeUint(n) == <<n>>

encodeMaybeBytes(m) ==
    encodeBool(m.has) \o (IF m.has THEN encodeUint(Len(m.bytes)) \o m.bytes ELSE <<>>)

encodeKey(key) == encodeUint(key.length) \o key.value

\* A child entry written without its id.
encodeChild_NoID(token, entry) == encodeUint(token) \o encodeKey(entry.compressedKey)

encodeChild(token, entry) ==
    encodeUint(token) \o encodeKey(entry.compressedKey) \o entry.id

RECURSIVE encodeChildren(_, _)
\* The entries of the tokens ts of children, in ascending token order.
encodeChildren(children, ts) ==
    IF ts = {} THEN <<>>
    ELSE LET t == CHOOSE x \in ts : \A y \in ts : x <= y
         IN  encodeChild(t, children[t]) \o encodeChildren(children, ts \ {t})

\* node.bytes()
nodeBytes(n) ==
    encodeMaybeBytes(n.value)
    \o encodeUint(Cardinality(DOMAIN n.children))
    \o encodeChildren(n.children, DOMAIN n.children)

NoErr == "nil"

ErrUnexpectedEOF == "io.ErrUnexpectedEOF"

\* A read that went past the end of the input.
ReadEOF(pos) == [err |-> ErrUnexpectedEOF, val |-> 0, pos |-> pos]

\* The n bytes of bs from position pos on.
readBytes(bs, pos, n) ==
    IF pos + n - 1 > Len(bs) THEN ReadEOF(pos)
    ELSE [err |-> NoErr, val |-> SubSeq(bs, pos, pos + n - 1), pos |-> pos + n]

readUint(bs, pos) ==
    LET r == readBytes(bs, pos, 1)
    IN  IF r.err # NoErr THEN r ELSE [r EXCEPT !.val = r.val[1]]

readBool(bs, pos) ==
    LET r == readUint(bs, pos)
    IN  IF r.err # NoErr THEN r
        ELSE IF r.val > 1 THEN [r EXCEPT !.err = "errInvalidBool"]
        ELSE [r EXCEPT !.val = (r.val = 1)]

readMaybeBytes(bs, pos) ==
    LET has == readBool(bs, pos)
    IN  IF has.err # NoErr THEN has
        ELSE IF ~has.val THEN [has EXCEPT !.val = Nothing]
        ELSE LET n == readUint(bs, has.pos)
             IN  IF n.err # NoErr THEN n
                 ELSE LET v == readBytes(bs, n.pos, n.val)
                      IN  IF v.err # NoErr THEN v ELSE [v EXCEPT !.val = Some(v.val)]

readKey(bs, pos) ==
    LET n == readUint(bs, pos)
    IN  IF n.err # NoErr THEN n
        ELSE LET v == readBytes(bs, n.pos, bytesNeeded(n.val))
             IN  IF v.err # NoErr THEN v
                 ELSE [v EXCEPT !.val = [length |-> n.val, value |-> v.val]]

\* One child entry: val is <<token, entry>>.
readChild(bs, pos) ==
    LET t == readUint(bs, pos)
    IN  IF t.err # NoErr THEN t
        ELSE LET ck == readKey(bs, t.pos)
             IN  IF ck.err # NoErr THEN ck
                 ELSE LET id == readBytes(bs, ck.pos, HashLength)
                      IN  IF id.err # NoErr THEN id
                          ELSE [id EXCEPT !.val =
                                   <<t.val, [compressedKey |-> ck.val, id |-> id.val]>>]

RECURSIVE readChildren_Partial(_, _, _, _)
\* readChildren returning the children read so far when the input ends.
readChildren_Partial(bs, pos, count, acc) ==
    IF count = 0 THEN [err |-> NoErr, val |-> acc, pos |-> pos]
    ELSE LET c == readChild(bs, pos)
         IN  IF c.err # NoErr THEN [err |-> NoErr, val |-> acc, pos |-> pos]
             ELSE readChildren_Partial(bs, c.pos, count - 1, MapPut(acc, c.val[1], c.val[2]))

RECURSIVE readChildren(_, _, _, _)
\* The count child entries from pos on, added to the map acc.
readChildren(bs, pos, count, acc) ==
    IF count = 0 THEN [err |-> NoErr, val |-> acc, pos |-> pos]
    ELSE LET c == readChild(bs, pos)
         IN  IF c.err # NoErr THEN c
             ELSE readChildren(bs, c.pos, count - 1, MapPut(acc, c.val[1], c.val[2]))

NoNode == <<>>

Failed(e) == [err |-> e, node |-> NoNode]

\* parseNode(key, bs): the node, or the error and no node.
parseNode(key, bs) ==
    LET v == readMaybeBytes(bs, 1)
    IN  IF v.err # NoErr THEN Failed(v.err)
        ELSE LET n == readUint(bs, v.pos)
             IN  IF n.err # NoErr THEN Failed(n.err)
                 ELSE LET cs == readChildren(bs, n.pos, n.val, <<>>)
                      IN  IF cs.err # NoErr THEN Failed(cs.err)
                          ELSE [err |-> NoErr,
                                node |-> [key |-> key, value |-> v.val, children |-> cs.val]]

(***************************************************************************)
(* SpecNode: the root node of node_test.go gets a value and children, is    *)
(* serialized, and prefixes of its bytes are parsed.                        *)
(***************************************************************************)
\* The ids of the children: the id of a node whose id was not calculated yet
\* (all zero) and two calculated ones.
IDOf(b) == [i \in 1..HashLength |-> b]

ChildIDs == {IDOf(0), IDOf(1), IDOf(255)}

\* The keys of the children: ToKey([]byte{255}), ToKey([]byte{237}) and
\* ToKey([]byte("key")).
ChildKeys == {toKey([mem |-> "fresh", bytes |-> bs]).key :
                 bs \in {<<255>>, <<237>>, <<107, 101, 121>>}}

RootValues == {Nothing, Some(<<>>), Some(<<7>>)}

NodeCalled(op, before, token, n, res) ==
    [op |-> op, before |-> before, token |-> token, n |-> n, res |-> res]

InitNode ==
    /\ idleKey
    /\ idleIter
    /\ idleConfig
    /\ idleTrie
    /\ idleExec
    /\ root = newNode(EmptyKey)
    /\ data = <<>>
    /\ nodeCall = NodeCalled("newNode", <<>>, 0, 0, Failed(NoErr))

\* root.setValue(v)
CallSetValue ==
    /\ data = <<>>
    /\ \E v \in RootValues :
        /\ v # root.value
        /\ root' = setValue(root, v)
        /\ nodeCall' = NodeCalled("setValue", root.children, 0, 0, Failed(NoErr))
    /\ UNCHANGED <<data, keyVars, iterVars, configVars, trieVars, execVars>>

\* root.addChild(BranchFactor16, childNode), childNode having the key ck and
\* the id id.
CallAddChild ==
    /\ data = <<>>
    /\ \E ck \in ChildKeys, id \in ChildIDs :
        /\ root' = addChild(root, 16, [key |-> ck, id |-> id])
        /\ nodeCall' = NodeCalled("addChild", root.children,
                                  Token(ck, root.key.length, BitsPerToken(16)), 0,
                                  Failed(NoErr))
    /\ UNCHANGED <<data, keyVars, iterVars, configVars, trieVars, execVars>>

\* data := root.bytes()
CallBytes ==
    /\ data = <<>>
    /\ data' = nodeBytes(root)
    /\ nodeCall' = NodeCalled("bytes", root.children, 0, 0, Failed(NoErr))
    /\ UNCHANGED <<root, keyVars, iterVars, configVars, trieVars, execVars>>

\* parseNode(ToKey([]byte("")), data[:n])
CallParseNode ==
    /\ data # <<>>
    /\ \E n \in 0..Len(data) :
        nodeCall' = NodeCalled("parseNode", root.children, 0, n,
                               parseNode(toKey([mem |-> "fresh", bytes |-> <<>>]).key,
                                         SubSeq(data, 1, n)))
    /\ UNCHANGED <<root, data, keyVars, iterVars, configVars, trieVars, execVars>>

NextNode ==
    \/ CallSetValue
    \/ CallAddChild
    \/ CallBytes
    \/ CallParseNode

SpecNode == InitNode /\ [][NextNode]_vars

(***************************************************************************)
(* The trie engine and proof verification. The trie is a function from the  *)
(* paths of its nodes to the nodes; a node is [value, children, id, dirty], *)
(* value 0 when the node holds none, children a map from token to           *)
(* [suffix, id]: the compressed path to the child after the token, and the  *)
(* digest recorded for the child. A path is the sequence of its tokens. A   *)
(* digest is the triple it is the hash of.                                  *)
(***************************************************************************)
TrieBranchFactor == 2

\* Keys have at most this many tokens.
MaxTrieKeyLen == 2
\* The trie holds at most this many keys at a time.
MaxTrieKeys == 2

TrieTokens == 0..(TrieBranchFactor - 1)

TrieKeys == PathsUpTo(TrieTokens, MaxTrieKeyLen)

TrieValues == {1, 2}

NoValue == 0

\* The digest of a node whose digest was never computed.
NoDigest == <<>>

\* The hash of a node: of its path, its value and its children's digests.
Digest(path, value, childIDs) == <<path, value, childIDs>>

IsPathPrefix(p, q) == Len(p) <= Len(q) /\ SubSeq(q, 1, Len(p)) = p

RECURSIVE CommonPrefixLen(_, _)
CommonPrefixLen(a, b) ==
    IF Len(a) = 0 \/ Len(b) = 0 THEN 0
    ELSE IF a[1] # b[1] THEN 0
    ELSE 1 + CommonPrefixLen(Tail(a), Tail(b))

\* A new node: its digest is not computed yet.
TrieNode(value, children) ==
    [value |-> value, children |-> children, id |-> NoDigest, dirty |-> TRUE]

\* The path of the child of the node at p under token t.
ChildPath(p, t, entry) == p \o <<t>> \o entry.suffix

SetChild(node, t, suffix, id) ==
    [node EXCEPT !.children = MapPut(node.children, t, [suffix |-> suffix, id |-> id])]

RemoveChild(node, t) ==
    [node EXCEPT !.children = [x \in (DOMAIN node.children) \ {t} |-> node.children[x]]]

RemoveNode(tr, p) == [x \in (DOMAIN tr) \ {p} |-> tr[x]]

\* A write that leaves the digest of the node trusted.
MarkDirty_Skip(tr, p) == tr

\* The digest of the node at p is no longer trusted: the memoized digest is
\* cleared.
MarkDirty(tr, p) == [tr EXCEPT ![p].dirty = TRUE, ![p].id = NoDigest]

\* The nodes on the walk from the root to p, p included.
Ancestors(tr, p) == {q \in DOMAIN tr : IsPathPrefix(q, p)}

\* The node with the digest recorded for the child under token t cleared.
ClearChildID(node, t) == SetChild(node, t, node.children[t].suffix, NoDigest)

\* Every node on the walk from the root to key is marked dirty, and the
\* digest it records for the next node of the walk is cleared.
MarkWalkDirty(tr, key) ==
    [x \in DOMAIN tr |->
        IF x \notin Ancestors(tr, key) THEN tr[x]
        ELSE IF x = key THEN MarkDirty(tr, x)[x]
        ELSE ClearChildID(MarkDirty(tr, x)[x], key[Len(x) + 1])]

\* The node above the node at p.
Parent(tr, p) ==
    CHOOSE q \in Ancestors(tr, p) \ {p} :
        \A r \in Ancestors(tr, p) \ {p} : Len(r) <= Len(q)

RECURSIVE insertAt(_, _, _, _)
\* insert(key, val), the walk being at the node at cur, a prefix of key.
insertAt(tr, cur, key, val) ==
    LET tr1 == MarkDirty(tr, cur)
    IN  IF cur = key THEN [tr1 EXCEPT ![cur].value = val]
        ELSE LET t == key[Len(cur) + 1]
             IN  IF t \notin DOMAIN tr1[cur].children
                 THEN \* a new leaf below cur
                      MapPut([tr1 EXCEPT ![cur] =
                                 SetChild(@, t, SubSeq(key, Len(cur) + 2, Len(key)), NoDigest)],
                             key, TrieNode(val, <<>>))
                 ELSE LET oldEntry == tr1[cur].children[t]
                          cp == ChildPath(cur, t, oldEntry)
                      IN  IF IsPathPrefix(cp, key)
                          THEN insertAt([tr1 EXCEPT ![cur] = ClearChildID(@, t)],
                                        cp, key, val)
                          ELSE \* the edge to cp diverges from key: split it at
                               \* the common prefix c
                               LET n == CommonPrefixLen(cp, key)
                                   c == SubSeq(key, 1, n)
                                   branch0 ==
                                       SetChild(TrieNode(IF key = c THEN val ELSE NoValue, <<>>),
                                                cp[n + 1], SubSeq(cp, n + 2, Len(cp)),
                                                oldEntry.id)
                                   branch ==
                                       IF key = c THEN branch0
                                       ELSE SetChild(branch0, key[n + 1],
                                                     SubSeq(key, n + 2, Len(key)), NoDigest)
                                   tr2 == MapPut([tr1 EXCEPT ![cur] =
                                                     SetChild(@, t, SubSeq(c, Len(cur) + 2, n),
                                                              NoDigest)],
                                                 c, branch)
                               IN  IF key = c THEN tr2
                                   ELSE MapPut(tr2, key, TrieNode(val, <<>>))

trieInsert(tr, key, val) == insertAt(tr, <<>>, key, val)

\* Path compression at the node at n after it lost its value or a child: a
\* node other than the root with no value is removed when it has no child
\* and merged with its child when it has one.
compress(tr, n) ==
    IF n = <<>> \/ tr[n].value # NoValue \/ Cardinality(DOMAIN tr[n].children) >= 2
    THEN tr
    ELSE LET par == Parent(tr, n)
             t == n[Len(par) + 1]
         IN  IF DOMAIN tr[n].children = {}
             THEN RemoveNode([tr EXCEPT ![par] = RemoveChild(@, t)], n)
             ELSE LET ct == CHOOSE x \in DOMAIN tr[n].children : TRUE
                      e == tr[n].children[ct]
                      cpath == ChildPath(n, ct, e)
                  IN  RemoveNode([tr EXCEPT ![par] =
                                     SetChild(@, t, SubSeq(cpath, Len(par) + 2, Len(cpath)),
                                              e.id)],
                                 n)

\* delete(key) of a key the trie holds.
trieDelete(tr, key) ==
    LET tr1 == MarkWalkDirty([tr EXCEPT ![key].value = NoValue], key)
        tr2 == compress(tr1, key)
    IN  IF key \in DOMAIN tr2 THEN tr2
        ELSE compress(tr2, Parent(tr1, key))

RECURSIVE nodeID(_, _)
\* The digest of the node at p: the memoized one unless the node is dirty.
nodeID(tr, p) ==
    IF ~tr[p].dirty THEN tr[p].id
    ELSE Digest(p, tr[p].value,
                [t \in DOMAIN tr[p].children |->
                    nodeID(tr, ChildPath(p, t, tr[p].children[t]))])

\* computeRoot: the digests of the dirty nodes are recomputed, children
\* before parents, and recorded in their parents.
computeRoot(tr) ==
    [p \in DOMAIN tr |->
        IF ~tr[p].dirty THEN tr[p]
        ELSE [tr[p] EXCEPT
                 !.id = nodeID(tr, p),
                 !.dirty = FALSE,
                 !.children =
                     [t \in DOMAIN tr[p].children |->
                         [tr[p].children[t] EXCEPT
                             !.id = nodeID(tr, ChildPath(p, t, tr[p].children[t]))]]]]

\* The snapshot of the node at p.
ProofNodeOf(tr, p) ==
    [KeyPath |-> p,
     Value |-> tr[p].value,
     Children |-> [t \in DOMAIN tr[p].children |-> tr[p].children[t].id]]

RECURSIVE getProofFrom(_, _, _)
\* getProof(key), the walk being at the node at cur.
getProofFrom(tr, cur, key) ==
    IF cur = key THEN <<ProofNodeOf(tr, cur)>>
    ELSE LET t == key[Len(cur) + 1]
         IN  IF t \notin DOMAIN tr[cur].children THEN <<ProofNodeOf(tr, cur)>>
             ELSE LET cp == ChildPath(cur, t, tr[cur].children[t])
                  IN  IF IsPathPrefix(cp, key)
                      THEN <<ProofNodeOf(tr, cur)>> \o getProofFrom(tr, cp, key)
                      ELSE <<ProofNodeOf(tr, cur)>>

getProof(tr, key) == getProofFrom(tr, <<>>, key)

\* The digest recomputed from a proof node.
ProofNodeID(pn) == Digest(pn.KeyPath, pn.Value, pn.Children)

\* The token of the child entry of pf[i] that leads to pf[i + 1].
BranchToken(pf, i) == pf[i + 1].KeyPath[Len(pf[i].KeyPath) + 1]

\* Proof verification against a root digest.
verify(pf, rootID) ==
    /\ Len(pf) > 0
    /\ pf[1].KeyPath = <<>>
    /\ \A i \in 1..(Len(pf) - 1) :
          /\ IsPathPrefix(pf[i].KeyPath, pf[i + 1].KeyPath)
          /\ pf[i].KeyPath # pf[i + 1].KeyPath
          /\ BranchToken(pf, i) \in DOMAIN pf[i].Children
          /\ pf[i].Children[BranchToken(pf, i)] = ProofNodeID(pf[i + 1])
    /\ ProofNodeID(pf[1]) = rootID

(***************************************************************************)
(* SpecTrie: keys are inserted and deleted, computeRoot is called, and      *)
(* proofs are taken of the keys of a trie whose digests are computed.       *)
(***************************************************************************)
PresentKeys(tr) == {p \in DOMAIN tr : tr[p].value # NoValue}

Clean(tr) == \A p \in DOMAIN tr : ~tr[p].dirty

NoTrieCall == [op |-> "none", key |-> <<>>, proof |-> <<>>, rootID |-> NoDigest, ok |-> FALSE]

\* An empty trie: the root, with no value and no children.
InitTrie ==
    /\ idleKey
    /\ idleIter
    /\ idleNode
    /\ idleConfig
    /\ idleExec
    /\ trie = (<<>> :> TrieNode(NoValue, <<>>))
    /\ trieCall = NoTrieCall

CallInsert ==
    /\ \E key \in TrieKeys, val \in TrieValues :
        /\ Cardinality(PresentKeys(trie) \cup {key}) <= MaxTrieKeys
        /\ trie' = trieInsert(trie, key, val)
    /\ trieCall' = NoTrieCall
    /\ UNCHANGED <<keyVars, iterVars, nodeVars, configVars, execVars>>

CallDelete ==
    /\ \E key \in PresentKeys(trie) : trie' = trieDelete(trie, key)
    /\ trieCall' = NoTrieCall
    /\ UNCHANGED <<keyVars, iterVars, nodeVars, configVars, execVars>>

CallComputeRoot ==
    /\ ~Clean(trie)
    /\ trie' = computeRoot(trie)
    /\ trieCall' = NoTrieCall
    /\ UNCHANGED <<keyVars, iterVars, nodeVars, configVars, execVars>>

\* getProof(key) after computeRoot, and the verification of the proof
\* against the root digest.
CallGetProof ==
    /\ Clean(trie)
    /\ \E key \in PresentKeys(trie) :
        LET pf == getProof(trie, key)
        IN  trieCall' = [op |-> "getProof", key |-> key, proof |-> pf,
                         rootID |-> trie[<<>>].id,
                         ok |-> verify(pf, trie[<<>>].id)]
    /\ UNCHANGED <<trie, keyVars, iterVars, nodeVars, configVars, execVars>>

NextTrie ==
    \/ CallInsert
    \/ CallDelete
    \/ CallComputeRoot
    \/ CallGetProof

SpecTrie == InitTrie /\ [][NextTrie]_vars

(***************************************************************************)
(* The platform chain's ProposalTxExecutor. uint64 amounts are modelled     *)
(* with WordBits bits and times are counted in units of ten seconds.        *)
(***************************************************************************)
\* The width of an amount (64 in the program).
WordBits == 24

MaxUint == (2 ^ (WordBits - 1) - 1) + 2 ^ (WordBits - 1)

\* reward.PercentDenominator
PercentDenominator == 1000000

\* SyncBound, ten seconds.
SyncBound == 1

\* Chain times, start and end times lie in 0..MaxTime.
MaxTime == 3

Times == 0..MaxTime

\* constants.PrimaryNetworkID, and one other subnet.
PrimaryNetworkID == 0

Subnets == {PrimaryNetworkID, 1}

\* ids.Empty as a transaction id.
EmptyTxID == 0

ExecNil == "nil"

\* math.Add64: an error instead of a sum that overflows.
Add64(a, b) ==
    IF a > MaxUint - b THEN [val |-> 0, err |-> "ErrOverflow"]
    ELSE [val |-> a + b, err |-> ExecNil]

\* math.Sub: an error instead of a difference below zero.
Sub64(a, b) ==
    IF a < b THEN [val |-> 0, err |-> "ErrUnderflow"]
    ELSE [val |-> a - b, err |-> ExecNil]

\* math.Mul64: an error instead of a product that overflows.
Mul64(a, b) ==
    IF a # 0 /\ b > MaxUint \div a THEN [val |-> 0, err |-> "ErrOverflow"]
    ELSE [val |-> a * b, err |-> ExecNil]

\* math.Max
MathMax(a, b) == IF a >= b THEN a ELSE b

\* a - b of two uint64 without a check: it wraps around.
WrapSub(a, b) == IF a >= b THEN a - b ELSE (MaxUint - (b - a)) + 1

\* A staker of state.Staker, with the kind of the transaction that added it
\* ("validator" for a txs.ValidatorTx, "delegator" for a txs.DelegatorTx,
\* "subnetValidator" for a permissioned subnet validator) and the delegation
\* shares of a validator's transaction.
Staker(txID, node, subnetID, kind, weight, startTime, endTime, nextTime, reward, shares) ==
    [TxID |-> txID, NodeID |-> node, SubnetID |-> subnetID, Kind |-> kind,
     Weight |-> weight, StartTime |-> startTime, EndTime |-> endTime,
     NextTime |-> nextTime, PotentialReward |-> reward, Shares |-> shares]

\* The order of a staker iterator: by NextTime, then by transaction id.
StakerBefore(a, b) ==
    a.NextTime < b.NextTime \/ (a.NextTime = b.NextTime /\ a.TxID < b.TxID)

RECURSIVE InsertStaker(_, _)
\* The stakers seq, in iterator order, with s put in its place.
InsertStaker(seq, s) ==
    IF seq = <<>> THEN <<s>>
    ELSE IF StakerBefore(s, seq[1]) THEN <<s>> \o seq
    ELSE <<seq[1]>> \o InsertStaker(Tail(seq), s)

\* The stakers seq without the staker of transaction txID.
DeleteStaker(seq, txID) == SelectSeq(seq, LAMBDA s : s.TxID # txID)

\* A state.Diff: the chain time, the current supply of each subnet, the
\* current and the pending stakers in iterator order, the UTXOs and reward
\* UTXOs added, and the delegatee reward accrued by each node.
ChainState(timestamp, supply, current, pending) ==
    [timestamp |-> timestamp, supply |-> supply, current |-> current,
     pending |-> pending, utxos |-> {}, rewardUTXOs |-> {},
     delegateeReward |-> [n \in Subnets \X {1, 2} |-> 0]]

\* No reward was split.
NoSplit == [done |-> FALSE]

\* The result of a visitor method: the two states, PrefersCommit and the
\* error returned, and the reward split it computed, if any.
Executed(commit, abort, prefers, err) ==
    [commit |-> commit, abort |-> abort, prefers |-> prefers, err |-> err,
     split |-> NoSplit]

\* GetNextStakerChangeTime
GetNextStakerChangeTime(state) ==
    LET hasCurrentStaker == Len(state.current) > 0
        hasPendingStaker == Len(state.pending) > 0
    IN  IF hasCurrentStaker /\ hasPendingStaker
        THEN LET nextCurrentTime == state.current[1].NextTime
                 nextPendingTime == state.pending[1].NextTime
             IN  IF nextCurrentTime < nextPendingTime
                 THEN [time |-> nextCurrentTime, err |-> ExecNil]
                 ELSE [time |-> nextPendingTime, err |-> ExecNil]
        ELSE IF hasCurrentStaker
        THEN [time |-> state.current[1].NextTime, err |-> ExecNil]
        ELSE IF hasPendingStaker
        THEN [time |-> state.pending[1].NextTime, err |-> ExecNil]
        ELSE [time |-> 0, err |-> "ErrNotFound"]

\* VerifyNewChainTime: the chain time moves no further than the next staker
\* change and no further than SyncBound ahead of the clock.
VerifyNewChainTime(newChainTime, nextStakerChangeTime, now) ==
    IF newChainTime > nextStakerChangeTime THEN "ErrChildBlockAfterStakerChangeTime"
    ELSE IF newChainTime > now + SyncBound THEN "ErrChildBlockBeyondSyncBound"
    ELSE ExecNil

RECURSIVE AddPendingStakers(_, _)
\* The part of AdvanceTimeTo and Apply that makes the pending stakers that
\* start by newChainTime current: each leaves the pending set, enters the
\* current set with its end time as NextTime, and a permissionless staker's
\* potential reward is added to the supply of its subnet.
AddPendingStakers(state, newChainTime) ==
    IF state.pending = <<>> \/ state.pending[1].StartTime > newChainTime
    THEN [state |-> state, err |-> ExecNil]
    ELSE LET s == state.pending[1]
             supply == IF s.Kind = "subnetValidator"
                       THEN [val |-> state.supply[s.SubnetID], err |-> ExecNil]
                       ELSE Add64(state.supply[s.SubnetID], s.PotentialReward)
         IN  IF supply.err # ExecNil THEN [state |-> state, err |-> supply.err]
             ELSE AddPendingStakers(
                      [state EXCEPT
                          !.pending = Tail(state.pending),
                          !.current = InsertStaker(state.current,
                                                   [s EXCEPT !.NextTime = s.EndTime]),
                          !.supply = [state.supply EXCEPT ![s.SubnetID] = supply.val]],
                      newChainTime)

\* The part of AdvanceTimeTo and Apply that removes the permissioned subnet
\* validators whose end time has come.
RemoveExpiredStakers(state, newChainTime) ==
    [state EXCEPT !.current =
        SelectSeq(state.current,
                  LAMBDA s : ~(s.Kind = "subnetValidator" /\ s.EndTime <= newChainTime))]

\* AdvanceTimeTo followed by changes.Apply: the state with the staker changes
\* up to newChainTime applied (the timestamp is left alone), or an error and
\* the state as it was.
AdvanceTimeTo(state, newChainTime) ==
    LET added == AddPendingStakers(state, newChainTime)
    IN  IF added.err # ExecNil THEN [state |-> state, err |-> added.err]
        ELSE [state |-> RemoveExpiredStakers(added.state, newChainTime), err |-> ExecNil]

\* AdvanceTimeTx that accepts a proposed time equal to the parent's.
AdvanceTimeTx_AcceptsEqual(e, tx, creds) ==
    IF tx.IsNil THEN Executed(e.commit, e.abort, e.prefers, "ErrNilTx")
    ELSE IF creds # 0
    THEN Executed(e.commit, e.abort, e.prefers, "errWrongNumberOfCredentials")
    ELSE LET newChainTime == tx.Time
             parentChainTime == e.commit.timestamp
             next == GetNextStakerChangeTime(e.commit)
             changes == AdvanceTimeTo(e.commit, newChainTime)
         IN  IF newChainTime >= e.backend.BanffTime
             THEN Executed(e.commit, e.abort, e.prefers, "ErrAdvanceTimeTxIssuedAfterBanff")
             ELSE IF newChainTime < parentChainTime
             THEN Executed(e.commit, e.abort, e.prefers, "ErrChildBlockNotAfterParent")
             ELSE IF next.err # ExecNil
             THEN Executed(e.commit, e.abort, e.prefers, next.err)
             ELSE IF VerifyNewChainTime(newChainTime, next.time, e.backend.now) # ExecNil
             THEN Executed(e.commit, e.abort, e.prefers,
                           VerifyNewChainTime(newChainTime, next.time, e.backend.now))
             ELSE IF changes.err # ExecNil
             THEN Executed(e.commit, e.abort, e.prefers, changes.err)
             ELSE Executed([changes.state EXCEPT !.timestamp = newChainTime],
                           e.abort,
                           ~(newChainTime > e.backend.now + SyncBound),
                           ExecNil)

\* ProposalTxExecutor.AdvanceTimeTx on the executor e (its backend, its two
\* states and PrefersCommit), for a transaction tx (nil or [Time]) that
\* comes with creds credentials.
AdvanceTimeTx(e, tx, creds) ==
    IF tx.IsNil THEN Executed(e.commit, e.abort, e.prefers, "ErrNilTx")
    ELSE IF creds # 0
    THEN Executed(e.commit, e.abort, e.prefers, "errWrongNumberOfCredentials")
    ELSE LET newChainTime == tx.Time
             parentChainTime == e.commit.timestamp
             next == GetNextStakerChangeTime(e.commit)
             changes == AdvanceTimeTo(e.commit, newChainTime)
         IN  IF newChainTime >= e.backend.BanffTime
             THEN Executed(e.commit, e.abort, e.prefers, "ErrAdvanceTimeTxIssuedAfterBanff")
             ELSE IF ~(newChainTime > parentChainTime)
             THEN Executed(e.commit, e.abort, e.prefers, "ErrChildBlockNotAfterParent")
             ELSE IF next.err # ExecNil
             THEN Executed(e.commit, e.abort, e.prefers, next.err)
             ELSE IF VerifyNewChainTime(newChainTime, next.time, e.backend.now) # ExecNil
             THEN Executed(e.commit, e.abort, e.prefers,
                           VerifyNewChainTime(newChainTime, next.time, e.backend.now))
             ELSE IF changes.err # ExecNil
             THEN Executed(e.commit, e.abort, e.prefers, changes.err)
             ELSE Executed([changes.state EXCEPT !.timestamp = newChainTime],
                           e.abort,
                           ~(newChainTime > e.backend.now + SyncBound),
                           ExecNil)

NodeIDs == {1, 2}

\* What the code outside the executor does in one call: every call succeeds
\* ("ok"), or GetTx fails, or Fx.CreateOutput fails or returns an output that
\* is no verify.State, or the uptime calculation fails or reports an uptime
\* below the expected one.
ExternalOutcomes ==
    {"ok", "GetTxFails", "CreateOutputFails", "OutputNotState", "UptimeFails", "LowUptime"}

\* The error of a call of Fx.CreateOutput followed by the type assertion.
CreateOutput(ext) ==
    IF ext = "CreateOutputFails" THEN "errCreateOutput"
    ELSE IF ext = "OutputNotState" THEN "ErrInvalidState"
    ELSE ExecNil

\* GetCurrentValidator: the validator of nodeID on subnetID among the current
\* stakers of state, found or not.
GetCurrentValidator(state, subnetID, node) ==
    LET found == SelectSeq(state.current,
                           LAMBDA s : /\ s.SubnetID = subnetID
                                      /\ s.NodeID = node
                                      /\ s.Kind # "delegator")
    IN  IF found = <<>> THEN [staker |-> <<>>, err |-> "ErrNotFound"]
        ELSE [staker |-> found[1], err |-> ExecNil]

\* state.ShiftStakerAheadInPlace: the staker starts its next staking period,
\* as long as the one that ends, ending at EndTime at the latest.
ShiftStakerAhead(s) ==
    LET period == s.NextTime - s.StartTime
        next == IF s.NextTime + period > s.EndTime THEN s.EndTime ELSE s.NextTime + period
    IN  [s EXCEPT !.StartTime = s.NextTime, !.NextTime = next]

\* AddUTXO
AddUTXO(state, txID, index, amount) ==
    [state EXCEPT !.utxos = @ \cup {[TxID |-> txID, OutputIndex |-> index, Amt |-> amount]}]

\* AddUTXO followed by AddRewardUTXO
AddRewardUTXO(state, txID, index, amount) ==
    [AddUTXO(state, txID, index, amount) EXCEPT
        !.rewardUTXOs = @ \cup {[TxID |-> txID, OutputIndex |-> index, Amt |-> amount]}]

\* len(GetRewardUTXOs(txID))
RewardUTXOCount(state, txID) == Cardinality({u \in state.rewardUTXOs : u.TxID = txID})

\* The staker leaves the current set of state or, when it restakes, is
\* shifted ahead in it; a staker that leaves gets its stake back. A staker
\* transaction has one output and one stake output, of the staker's weight.
RemoveOrRestake(state, s, txID) ==
    IF s.NextTime < s.EndTime
    THEN [state EXCEPT !.current = InsertStaker(DeleteStaker(@, s.TxID), ShiftStakerAhead(s))]
    ELSE AddUTXO([state EXCEPT !.current = DeleteStaker(@, s.TxID)], txID, 1, s.Weight)

\* The split of a delegator's reward that rounds the quotient up when the
\* product overflows.
RewardSplit_FallbackRoundsUp(validatorShares, potentialReward) ==
    LET delegatorShares == WrapSub(PercentDenominator, validatorShares)
        optimisticReward == Mul64(delegatorShares, potentialReward)
        delegatorReward ==
            IF optimisticReward.err = ExecNil
            THEN optimisticReward.val \div PercentDenominator
            ELSE delegatorShares * ((potentialReward \div PercentDenominator) + 1)
    IN  [delegatorReward |-> delegatorReward,
         delegateeReward |-> WrapSub(potentialReward, delegatorReward),
         optimistic |-> optimisticReward.err = ExecNil]

\* The split of a delegator's potential reward between the delegator and the
\* validator it delegates to; optimistic tells that the product did not
\* overflow.
RewardSplit(validatorShares, potentialReward) ==
    LET delegatorShares == WrapSub(PercentDenominator, validatorShares)
        optimisticReward == Mul64(delegatorShares, potentialReward)
        delegatorReward ==
            IF optimisticReward.err = ExecNil
            THEN optimisticReward.val \div PercentDenominator
            ELSE delegatorShares * (potentialReward \div PercentDenominator)
    IN  [delegatorReward |-> delegatorReward,
         delegateeReward |-> WrapSub(potentialReward, delegatorReward),
         optimistic |-> optimisticReward.err = ExecNil]

\* The case txs.ValidatorTx of RewardValidatorTx: the two states after it and
\* the error it returns with.
RewardValidatorCase(e, s, txID, ext) ==
    LET commit1 == RemoveOrRestake(e.commit, s, txID)
        abort1 == RemoveOrRestake(e.abort, s, txID)
        utxosOffset == 2 + RewardUTXOCount(commit1, txID)
        rewarded == s.PotentialReward > 0
        commit2 == IF rewarded
                   THEN AddRewardUTXO(commit1, txID, utxosOffset, s.PotentialReward)
                   ELSE commit1
        utxosOffset2 == IF rewarded THEN utxosOffset + 1 ELSE utxosOffset
        delegateeReward == commit2.delegateeReward[<<s.SubnetID, s.NodeID>>]
    IN  IF rewarded /\ CreateOutput(ext) # ExecNil
        THEN [commit |-> commit1, abort |-> abort1, err |-> CreateOutput(ext),
              split |-> NoSplit]
        ELSE IF delegateeReward > 0 /\ CreateOutput(ext) # ExecNil
        THEN [commit |-> commit2, abort |-> abort1, err |-> CreateOutput(ext),
              split |-> NoSplit]
        ELSE IF delegateeReward > 0
        THEN [commit |-> AddRewardUTXO(commit2, txID, utxosOffset2, delegateeReward),
              abort |-> AddRewardUTXO(abort1, txID, utxosOffset2 - 1, delegateeReward),
              err |-> ExecNil, split |-> NoSplit]
        ELSE [commit |-> commit2, abort |-> abort1, err |-> ExecNil, split |-> NoSplit]

\* The case txs.DelegatorTx of RewardValidatorTx.
RewardDelegatorCase(e, s, txID, ext) ==
    LET commit1 == RemoveOrRestake(e.commit, s, txID)
        abort1 == RemoveOrRestake(e.abort, s, txID)
        vdr == GetCurrentValidator(commit1, s.SubnetID, s.NodeID)
        vdrStaker == vdr.staker
        split == RewardSplit(vdrStaker.Shares, s.PotentialReward)
        utxosOffset == 2 + RewardUTXOCount(commit1, txID)
        commit2 == IF split.delegatorReward > 0
                   THEN AddRewardUTXO(commit1, txID, utxosOffset, split.delegatorReward)
                   ELSE commit1
        utxosOffset2 == IF split.delegatorReward > 0 THEN utxosOffset + 1 ELSE utxosOffset
        key == <<vdrStaker.SubnetID, vdrStaker.NodeID>>
        newDelegateeReward ==
            IF commit2.delegateeReward[key] > MaxUint - split.delegateeReward
            THEN split.delegateeReward - (MaxUint - commit2.delegateeReward[key]) - 1
            ELSE commit2.delegateeReward[key] + split.delegateeReward
        observed == [done |-> TRUE, shares |-> vdrStaker.Shares,
                     potentialReward |-> s.PotentialReward, rewards |-> split]
    IN  IF vdr.err # ExecNil
        THEN [commit |-> commit1, abort |-> abort1, err |-> vdr.err, split |-> NoSplit]
        ELSE IF ext = "GetTxFails"
        THEN [commit |-> commit1, abort |-> abort1, err |-> "errGetTx", split |-> NoSplit]
        ELSE IF vdrStaker.Kind # "validator"
        THEN [commit |-> commit1, abort |-> abort1, err |-> "ErrWrongTxType", split |-> NoSplit]
        ELSE IF split.delegatorReward > 0 /\ CreateOutput(ext) # ExecNil
        THEN [commit |-> commit1, abort |-> abort1, err |-> CreateOutput(ext),
              split |-> observed]
        ELSE IF split.delegateeReward = 0
        THEN [commit |-> commit2, abort |-> abort1, err |-> ExecNil, split |-> observed]
        ELSE IF vdrStaker.StartTime > e.backend.CortinaTime
        THEN [commit |-> [commit2 EXCEPT !.delegateeReward[key] = newDelegateeReward],
              abort |-> abort1, err |-> ExecNil, split |-> observed]
        ELSE IF CreateOutput(ext) # ExecNil
        THEN [commit |-> commit2, abort |-> abort1, err |-> CreateOutput(ext),
              split |-> observed]
        ELSE [commit |-> AddRewardUTXO(commit2, txID, utxosOffset2, split.delegateeReward),
              abort |-> abort1, err |-> ExecNil, split |-> observed]

\* RewardStaker that subtracts the reward from the supply without a check.
RewardStaker_UncheckedSub(e, s, txID, ext) ==
    LET r == IF s.Kind = "validator" THEN RewardValidatorCase(e, s, txID, ext)
             ELSE RewardDelegatorCase(e, s, txID, ext)
        currentSupply == r.abort.supply[s.SubnetID]
        newSupply == [val |-> WrapSub(currentSupply, s.PotentialReward), err |-> ExecNil]
        abort2 == [r.abort EXCEPT !.supply[s.SubnetID] = newSupply.val]
    IN  IF s.Kind \notin {"validator", "delegator"}
        THEN Executed(e.commit, e.abort, e.prefers, "ErrShouldBePermissionlessStaker")
        ELSE IF r.err # ExecNil
        THEN [Executed(r.commit, r.abort, e.prefers, r.err) EXCEPT !.split = r.split]
        ELSE IF newSupply.err # ExecNil
        THEN [Executed(r.commit, r.abort, e.prefers, newSupply.err) EXCEPT !.split = r.split]
        ELSE IF ext = "UptimeFails"
        THEN [Executed(r.commit, abort2, e.prefers, "errCalculateUptime") EXCEPT
                 !.split = r.split]
        ELSE [Executed(r.commit, abort2, ext # "LowUptime", ExecNil) EXCEPT !.split = r.split]

\* RewardValidatorTx from the switch on the staker's transaction on, for the
\* staker s to remove.
RewardStaker(e, s, txID, ext) ==
    LET r == IF s.Kind = "validator" THEN RewardValidatorCase(e, s, txID, ext)
             ELSE RewardDelegatorCase(e, s, txID, ext)
        currentSupply == r.abort.supply[s.SubnetID]
        newSupply == Sub64(currentSupply, s.PotentialReward)
        abort2 == [r.abort EXCEPT !.supply[s.SubnetID] = newSupply.val]
    IN  IF s.Kind \notin {"validator", "delegator"}
        THEN Executed(e.commit, e.abort, e.prefers, "ErrShouldBePermissionlessStaker")
        ELSE IF r.err # ExecNil
        THEN [Executed(r.commit, r.abort, e.prefers, r.err) EXCEPT !.split = r.split]
        ELSE IF newSupply.err # ExecNil
        THEN [Executed(r.commit, r.abort, e.prefers, newSupply.err) EXCEPT !.split = r.split]
        ELSE IF ext = "UptimeFails"
        THEN [Executed(r.commit, abort2, e.prefers, "errCalculateUptime") EXCEPT
                 !.split = r.split]
        ELSE [Executed(r.commit, abort2, ext # "LowUptime", ExecNil) EXCEPT !.split = r.split]

\* ProposalTxExecutor.RewardValidatorTx on the executor e, for a transaction
\* tx (nil or [TxID]) that comes with creds credentials.
RewardValidatorTx(e, tx, creds, ext) ==
    IF tx.IsNil THEN Executed(e.commit, e.abort, e.prefers, "ErrNilTx")
    ELSE IF tx.TxID = EmptyTxID THEN Executed(e.commit, e.abort, e.prefers, "ErrInvalidID")
    ELSE IF creds # 0
    THEN Executed(e.commit, e.abort, e.prefers, "errWrongNumberOfCredentials")
    ELSE IF e.commit.current = <<>>
    THEN Executed(e.commit, e.abort, e.prefers, "ErrNotFound")
    ELSE LET stakerToRemove == e.commit.current[1]
         IN  IF stakerToRemove.TxID # tx.TxID
             THEN Executed(e.commit, e.abort, e.prefers, "ErrRemoveWrongStaker")
             ELSE IF stakerToRemove.NextTime # e.commit.timestamp
             THEN Executed(e.commit, e.abort, e.prefers, "ErrRemoveStakerTooEarly")
             ELSE IF GetCurrentValidator(e.commit, PrimaryNetworkID,
                                         stakerToRemove.NodeID).err # ExecNil
             THEN Executed(e.commit, e.abort, e.prefers, "ErrNotFound")
             ELSE IF ext = "GetTxFails"
             THEN Executed(e.commit, e.abort, e.prefers, "errGetTx")
             ELSE RewardStaker(e, stakerToRemove, tx.TxID, ext)

(***************************************************************************)
(* SpecExec: an executor is given a parent state as both of its states and  *)
(* executes one proposal transaction.                                       *)
(***************************************************************************)
\* The potential rewards of the stakers and the supplies of the parent state.
RewardSamples == {0, 1, 24, PercentDenominator + (PercentDenominator \div 2) + 1, MaxUint}

SupplySamples == {0, PercentDenominator + (PercentDenominator \div 2) + 1, MaxUint}

\* The delegation shares of a validator: none, 30% and all.
ShareSamples == {0, 3 * (PercentDenominator \div 10), PercentDenominator}

\* The shares and the potential rewards of the parent states that have one
\* validator and one delegator to reward: the shares around none, a half and
\* all, and the rewards around 0, the multiples of PercentDenominator and
\* the largest amount.
SplitShares ==
    {0, 1, 2, 3 * (PercentDenominator \div 10), (PercentDenominator \div 2) - 1,
     PercentDenominator \div 2, PercentDenominator - 2, PercentDenominator - 1,
     PercentDenominator}

SplitRewards ==
    (0..40)
    \cup {m * PercentDenominator + d : m \in {1, 2, (MaxUint \div PercentDenominator) - 1},
                                        d \in {0 - 1, 0, 1}}
    \cup {(MaxUint \div PercentDenominator) * PercentDenominator - 1,
          (MaxUint \div PercentDenominator) * PercentDenominator,
          MaxUint - 1, MaxUint}

RECURSIVE StakersInOrder(_)
\* The stakers of a set in iterator order.
StakersInOrder(S) ==
    IF S = {} THEN <<>>
    ELSE LET s == CHOOSE x \in S : \A y \in S : x = y \/ StakerBefore(x, y)
         IN  <<s>> \o StakersInOrder(S \ {s})

\* The primary network validator of node 1, or none.
ParentValidators ==
    {{}} \cup
    {{Staker(1, 1, PrimaryNetworkID, "validator", 5, startTime, MaxTime, nextTime, reward, shares)} :
        startTime \in {0, 1}, nextTime \in {1, MaxTime}, reward \in {0, 24},
        shares \in ShareSamples}

\* A delegator to node 1 on the primary network whose staking period ends at
\* time 1, at its end time or before it, or none.
ParentDelegators ==
    {{}} \cup
    {{Staker(2, 1, PrimaryNetworkID, "delegator", 3, 0, endTime, 1, reward, 0)} :
        endTime \in {1, 2}, reward \in RewardSamples}

\* A permissioned validator of subnet 1 that ends at time 2, a validator of
\* node 2 that is pending until time 2, or neither.
ParentOthers ==
    {[current |-> {}, pending |-> {}],
     [current |-> {Staker(3, 1, 1, "subnetValidator", 2, 0, 2, 2, 0, 0)}, pending |-> {}],
     [current |-> {},
      pending |-> {Staker(4, 2, PrimaryNetworkID, "validator", 4, 2, MaxTime, 2, 24, 0)}]}

\* The executor's Config and clock: the Banff and Cortina fork times and the
\* time of the local clock.
Backends ==
    {[BanffTime |-> MaxTime + 1, CortinaTime |-> 0, now |-> MaxTime],
     [BanffTime |-> 2, CortinaTime |-> 0, now |-> MaxTime],
     [BanffTime |-> MaxTime + 1, CortinaTime |-> 0, now |-> 0]}

\* A nil transaction pointer.
NilTx == [IsNil |-> TRUE]

NoTx ==
    [op |-> "none", tx |-> NilTx, creds |-> 0, ext |-> "ok", err |-> ExecNil, split |-> NoSplit]

\* The transactions executed: no transaction, one without credentials for
\* each time or id, and one with a credential.
AdvanceTimeInputs ==
    {[tx |-> NilTx, creds |-> 0]}
    \cup {[tx |-> [IsNil |-> FALSE, Time |-> t], creds |-> 0] : t \in Times}
    \cup {[tx |-> [IsNil |-> FALSE, Time |-> t], creds |-> 1] : t \in {1, MaxTime}}

RewardInputs ==
    {[tx |-> NilTx, creds |-> 0, ext |-> "ok"]}
    \cup {[tx |-> [IsNil |-> FALSE, TxID |-> id], creds |-> 0, ext |-> "ok"] : id \in 0..4}
    \cup {[tx |-> [IsNil |-> FALSE, TxID |-> id], creds |-> 1, ext |-> "ok"] : id \in {1, 2}}
    \cup {[tx |-> [IsNil |-> FALSE, TxID |-> id], creds |-> 0, ext |-> ext] :
             id \in {1, 2}, ext \in ExternalOutcomes}

InitExec ==
    /\ idleKey
    /\ idleIter
    /\ idleNode
    /\ idleConfig
    /\ idleTrie
    /\ backend \in Backends
    /\ \/ \E v \in ParentValidators, d \in ParentDelegators, o \in ParentOthers,
             supply \in SupplySamples, timestamp \in {1, 2} :
             onCommit = ChainState(timestamp,
                                   [n \in Subnets |-> supply],
                                   StakersInOrder(v \cup d \cup o.current),
                                   StakersInOrder(o.pending))
       \/ \E shares \in SplitShares, reward \in SplitRewards :
             onCommit = ChainState(1,
                                   [n \in Subnets |-> MaxUint],
                                   StakersInOrder(
                                       {Staker(1, 1, PrimaryNetworkID, "validator", 5, 0,
                                               MaxTime, MaxTime, 0, shares),
                                        Staker(2, 1, PrimaryNetworkID, "delegator", 3, 0,
                                               1, 1, reward, 0)}),
                                   <<>>)
    /\ onAbort = onCommit
    /\ prefersCommit = FALSE
    /\ txCall = NoTx
    /\ weightCall = <<>>

\* The executor of the model's state.
Executor == [backend |-> backend, commit |-> onCommit, abort |-> onAbort, prefers |-> prefersCommit]

\* e.AdvanceTimeTx(tx)
ExecAdvanceTimeTx ==
    /\ txCall.op = "none"
    /\ \E in \in AdvanceTimeInputs :
          \E r \in {AdvanceTimeTx(Executor, in.tx, in.creds)} :
              /\ onCommit' = r.commit
              /\ onAbort' = r.abort
              /\ prefersCommit' = r.prefers
              /\ txCall' = [op |-> "AdvanceTimeTx", tx |-> in.tx, creds |-> in.creds,
                            ext |-> "ok", err |-> r.err, split |-> r.split]
    /\ UNCHANGED <<backend, weightCall, keyVars, iterVars, nodeVars, configVars, trieVars>>

\* e.RewardValidatorTx(tx)
ExecRewardValidatorTx ==
    /\ txCall.op = "none"
    /\ \E in \in RewardInputs :
          \E r \in {RewardValidatorTx(Executor, in.tx, in.creds, in.ext)} :
              /\ onCommit' = r.commit
              /\ onAbort' = r.abort
              /\ prefersCommit' = r.prefers
              /\ txCall' = [op |-> "RewardValidatorTx", tx |-> in.tx, creds |-> in.creds,
                            ext |-> in.ext, err |-> r.err, split |-> r.split]
    /\ UNCHANGED <<backend, weightCall, keyVars, iterVars, nodeVars, configVars, trieVars>>

NextExec == ExecAdvanceTimeTx \/ ExecRewardValidatorTx

SpecExec == InitExec /\ [][NextExec]_vars

(***************************************************************************)
(* GetMaxWeight and SpecWeight: the maximum weight of a validator over a    *)
(* window of time is asked of a chain state with current and pending        *)
(* delegators.                                                              *)
(***************************************************************************)
\* GetCurrentDelegatorIterator and GetPendingDelegatorIterator: the
\* delegators of the validator among stakers, in iterator order.
DelegatorsOf(stakers, validator) ==
    SelectSeq(stakers, LAMBDA s : /\ s.Kind = "delegator"
                                  /\ s.SubnetID = validator.SubnetID
                                  /\ s.NodeID = validator.NodeID)

RECURSIVE StakerDiff(_, _)
\* state.NewStakerDiffIterator: the changes of the current set as chain time
\* advances, in the order of their time: the next current staker leaves at
\* its NextTime, the next pending staker enters at its start time, enters
\* first when both times are equal, and leaves again at its end time.
StakerDiff(current, pending) ==
    IF current = <<>> /\ pending = <<>> THEN <<>>
    ELSE IF pending = <<>>
              \/ (current # <<>> /\ current[1].NextTime < pending[1].NextTime)
    THEN <<[staker |-> current[1], isAdded |-> FALSE]>> \o StakerDiff(Tail(current), pending)
    ELSE <<[staker |-> pending[1], isAdded |-> TRUE]>>
         \o StakerDiff(InsertStaker(current, [pending[1] EXCEPT !.NextTime = pending[1].EndTime]),
                       Tail(pending))

RECURSIVE SumWeights(_, _)
\* The first loop of GetMaxWeight: the weights of the delegators added to
\* currentWeight one by one.
SumWeights(currentWeight, delegators) ==
    IF delegators = <<>> THEN [val |-> currentWeight, err |-> ExecNil]
    ELSE LET sum == Add64(currentWeight, delegators[1].Weight)
         IN  IF sum.err # ExecNil THEN sum
             ELSE SumWeights(sum.val, Tail(delegators))

RECURSIVE MaxOverChanges_StrictStart(_, _, _, _, _)
\* The second loop with a window that opens after startTime.
MaxOverChanges_StrictStart(changes, currentWeight, currentMax, startTime, endTime) ==
    IF changes = <<>> \/ changes[1].staker.NextTime > endTime
    THEN [val |-> MathMax(currentMax, currentWeight), err |-> ExecNil]
    ELSE LET delegator == changes[1].staker
             newMax == IF delegator.NextTime > startTime
                       THEN MathMax(currentMax, currentWeight)
                       ELSE currentMax
             newWeight == IF changes[1].isAdded
                          THEN Add64(currentWeight, delegator.Weight)
                          ELSE Sub64(currentWeight, delegator.Weight)
         IN  IF newWeight.err # ExecNil THEN [val |-> 0, err |-> newWeight.err]
             ELSE MaxOverChanges_StrictStart(Tail(changes), newWeight.val, newMax,
                                             startTime, endTime)

RECURSIVE MaxOverChanges(_, _, _, _, _)
\* The second loop of GetMaxWeight and its return: the changes up to endTime
\* are applied to currentWeight, currentMax following it from startTime on.
MaxOverChanges(changes, currentWeight, currentMax, startTime, endTime) ==
    IF changes = <<>> \/ changes[1].staker.NextTime > endTime
    THEN [val |-> MathMax(currentMax, currentWeight), err |-> ExecNil]
    ELSE LET delegator == changes[1].staker
             newMax == IF ~(delegator.NextTime < startTime)
                       THEN MathMax(currentMax, currentWeight)
                       ELSE currentMax
             newWeight == IF changes[1].isAdded
                          THEN Add64(currentWeight, delegator.Weight)
                          ELSE Sub64(currentWeight, delegator.Weight)
         IN  IF newWeight.err # ExecNil THEN [val |-> 0, err |-> newWeight.err]
             ELSE MaxOverChanges(Tail(changes), newWeight.val, newMax, startTime, endTime)

\* GetMaxWeight with the window opening after startTime.
GetMaxWeight_StrictStart(chainState, validator, startTime, endTime) ==
    LET currentWeight == SumWeights(validator.Weight,
                                    DelegatorsOf(chainState.current, validator))
    IN  IF currentWeight.err # ExecNil THEN [val |-> 0, err |-> currentWeight.err]
        ELSE MaxOverChanges_StrictStart(
                 StakerDiff(DelegatorsOf(chainState.current, validator),
                            DelegatorsOf(chainState.pending, validator)),
                 currentWeight.val, 0, startTime, endTime)

\* GetMaxWeight(chainState, validator, startTime, endTime)
GetMaxWeight(chainState, validator, startTime, endTime) ==
    LET currentWeight == SumWeights(validator.Weight,
                                    DelegatorsOf(chainState.current, validator))
    IN  IF currentWeight.err # ExecNil THEN [val |-> 0, err |-> currentWeight.err]
        ELSE MaxOverChanges(StakerDiff(DelegatorsOf(chainState.current, validator),
                                       DelegatorsOf(chainState.pending, validator)),
                            currentWeight.val, 0, startTime, endTime)

\* The weights of the delegators, and of the validator: small ones, and one
\* that two delegators overflow.
DelegatorWeights == {1, 3}

ValidatorWeights == {5, MaxUint - 3}

\* The delegators to node 1 that are current until time t, one per time and
\* weight, and the ones pending from time s to time t.
CurrentDelegators ==
    {Staker(10 + 2 * t + (w \div 2), 1, PrimaryNetworkID, "delegator", w, 0, t, t, 0, 0) :
        t \in Times, w \in DelegatorWeights}

PendingDelegators ==
    {Staker(100 + 20 * x[1] + 2 * x[2] + (w \div 2), 1, PrimaryNetworkID, "delegator", w,
            x[1], x[2], x[1], 0, 0) :
        x \in {y \in (Times \ {0}) \X Times : y[1] < y[2]}, w \in DelegatorWeights}

\* A delegator to another node, which GetMaxWeight leaves out.
OtherDelegator == Staker(9, 2, PrimaryNetworkID, "delegator", 3, 0, MaxTime, MaxTime, 0, 0)

NoWeightCall ==
    [op |-> "none", validator |-> <<>>, startTime |-> 0, endTime |-> 0,
     out |-> [val |-> 0, err |-> ExecNil]]

\* A chain at time 0 with at most two current and two pending delegators of
\* node 1.
InitWeight ==
    /\ idleKey
    /\ idleIter
    /\ idleNode
    /\ idleConfig
    /\ idleTrie
    /\ backend = <<>>
    /\ \E c \in SUBSET CurrentDelegators, p \in SUBSET PendingDelegators :
          /\ Cardinality(c) <= 2
          /\ Cardinality(p) <= 2
          /\ onCommit = ChainState(0, [n \in Subnets |-> 0],
                                   StakersInOrder(c \cup {OtherDelegator}),
                                   StakersInOrder(p))
    /\ onAbort = <<>>
    /\ prefersCommit = FALSE
    /\ txCall = <<>>
    /\ weightCall = NoWeightCall

\* GetMaxWeight(onCommit, validator, startTime, endTime) for a validator of
\* node 1 from time 0 to MaxTime and a window within its staking period.
CallGetMaxWeight ==
    /\ weightCall.op = "none"
    /\ \E w \in ValidatorWeights, startTime \in Times, endTime \in Times :
          /\ startTime < endTime
          /\ \E validator \in {Staker(1, 1, PrimaryNetworkID, "validator", w, 0, MaxTime,
                                      MaxTime, 0, 0)} :
                weightCall' = [op |-> "GetMaxWeight", validator |-> validator,
                               startTime |-> startTime, endTime |-> endTime,
                               out |-> GetMaxWeight(onCommit, validator, startTime, endTime)]
    /\ UNCHANGED <<backend, onCommit, onAbort, prefersCommit, txCall,
                   keyVars, iterVars, nodeVars, configVars, trieVars>>

NextWeight == CallGetMaxWeight

SpecWeight == InitWeight /\ [][NextWeight]_vars

(***************************************************************************)
(* Claims about the node codec, checked under SpecNode.                     *)
(***************************************************************************)
\* C5: for a node with children whose bytes() has length N, parseNode of
\* every prefix of length 1..N-1 fails with io.ErrUnexpectedEOF and returns
\* no node.
C5_TruncatedParseFails ==
    (/\ nodeCall.op = "parseNode"
     /\ DOMAIN root.children # {}
     /\ 1 <= nodeCall.n
     /\ nodeCall.n < Len(data)) =>
        /\ nodeCall.res.err = ErrUnexpectedEOF
        /\ nodeCall.res.node = NoNode

\* C5 witness: the bytes of a root with two children, cut one byte short,
\* were parsed and gave io.ErrUnexpectedEOF.
C5_Witness ==
    /\ nodeCall.op = "parseNode"
    /\ Cardinality(DOMAIN root.children) = 2
    /\ nodeCall.n = Len(data) - 1
    /\ nodeCall.res.err = ErrUnexpectedEOF

\* C6: parsing the bytes() of a node succeeds and gives a node with the same
\* child tokens, each with the same child id; and adding a child that already
\* has an entry leaves one entry for it, with the id of the last call.
C6_MarshalRoundTrip ==
    /\ (nodeCall.op = "parseNode" /\ nodeCall.n = Len(data)) =>
          /\ nodeCall.res.err = NoErr
          /\ nodeCall.res.node # NoNode
          /\ DOMAIN nodeCall.res.node.children = DOMAIN root.children
          /\ \A t \in DOMAIN root.children :
                nodeCall.res.node.children[t].id = root.children[t].id
    /\ (nodeCall.op = "addChild" /\ nodeCall.token \in DOMAIN nodeCall.before) =>
          DOMAIN root.children = DOMAIN nodeCall.before

\* C6 witness: the bytes of a root with the children of tokens 14 and 15,
\* the second with a calculated id, were parsed back in full.
C6_Witness ==
    /\ nodeCall.op = "parseNode"
    /\ nodeCall.n = Len(data)
    /\ nodeCall.res.err = NoErr
    /\ DOMAIN nodeCall.res.node.children = {14, 15}
    /\ nodeCall.res.node.children[15].id = IDOf(255)

(***************************************************************************)
(* Claims about the proof iterator, checked under SpecIter.                 *)
(***************************************************************************)
\* The key of child t of the node at index i (from 0) of pf: the path of the
\* next proof node when that child is the next proof node, else path + token.
ChildKey(pf, i, t) ==
    IF i + 1 < Len(pf) /\ pf[i + 2].KeyPath[Len(pf[i + 1].KeyPath) + 1] = t
    THEN pf[i + 2].KeyPath
    ELSE Append(pf[i + 1].KeyPath, t)

\* The key prefixes a proof proves: the path of each node and the key of
\* each child entry of each node.
ProvableKeys(pf) ==
    {pf[i].KeyPath : i \in 1..Len(pf)}
    \cup UNION {{ChildKey(pf, i - 1, t) : t \in DOMAIN pf[i].Children} : i \in 1..Len(pf)}

ReturnedKeys == {returned[i].key : i \in 1..Len(returned)}

\* C1: with the empty start key, the keys successive Next calls return are
\* strictly increasing.
C1_KeysStrictlyIncreasing ==
    start = EmptyPath =>
        \A i \in 1..(Len(returned) - 1) :
            Compare(returned[i].key, returned[i + 1].key) < 0

\* C2: iterating from the empty start key returns every provable key prefix
\* exactly once: only provable keys are returned, none twice, and all of them
\* by the time Next returns false.
C2_EveryProvableKeyOnce ==
    start = EmptyPath =>
        /\ ReturnedKeys \subseteq ProvableKeys(proof)
        /\ \A i, j \in 1..Len(returned) : returned[i].key = returned[j].key => i = j
        /\ ret = "false" => ReturnedKeys = ProvableKeys(proof)

\* C3: for every proof and start key, repeatedly calling Next eventually
\* returns false.
C3_EventuallyReturnsFalse == <>(ret = "false")

\* C4: the keys returned are all >= start, and the first key returned is the
\* smallest provable key prefix that is >= start.
C4_StartsAtFirstKeyFromStart ==
    /\ \A i \in 1..Len(returned) : Compare(start, returned[i].key) <= 0
    /\ Len(returned) >= 1 =>
          LET fromStart == {p \in ProvableKeys(proof) : Compare(start, p) <= 0}
          IN  /\ returned[1].key \in fromStart
              /\ \A p \in fromStart : Compare(returned[1].key, p) <= 0

(***************************************************************************)
(* Claims about the Key operations, checked under SpecKey.                  *)
(***************************************************************************)
\* Whether the bits of q are the first bits of key.
IsBitPrefix(key, q) ==
    q.length <= key.length /\ SubSeq(Bits(key), 1, q.length) = Bits(q)

\* C7: for every byte slice b, ToKey(b) has bit length 8*len(b) and its
\* Bytes() are b, and they stay the bytes b had at the call whatever the
\* caller writes into its slice afterwards.
C7_ToKeyRoundTripAndCopy ==
    call.op \in {"ToKey", "MutateCallerSlice"} =>
        /\ k.length = 8 * Len(call.bytes)
        /\ Bytes(k) = call.bytes

\* C7 witness: the caller has overwritten its two-byte slice after ToKey and
\* the key still holds the bytes of the call.
C7_Witness ==
    /\ call.op = "MutateCallerSlice"
    /\ Len(call.bytes) = 2
    /\ buf # call.bytes
    /\ Bytes(k) = call.bytes
    /\ k.length = 16

\* C8: k.HasPrefix(q) is true exactly when q is no longer than k and the
\* first q.length bits of k are the bits of q (so k.HasPrefix(k) is true), and
\* k.HasStrictPrefix(q) is true exactly when that holds and k # q (so
\* k.HasStrictPrefix(k) is false).
C8_HasPrefixIffBitPrefix ==
    /\ call.op = "HasPrefix" => call.out = IsBitPrefix(call.k, call.q)
    /\ call.op = "HasStrictPrefix" =>
          call.out = (IsBitPrefix(call.k, call.q) /\ call.k # call.q)

\* C8 witness: a prefix of 11 bits (a partial last byte) of a 16-bit key whose
\* bits after the prefix are not all zero is found to be a prefix.
C8_Witness ==
    /\ call.op = "HasPrefix"
    /\ call.out = TRUE
    /\ call.q.length = 11
    /\ call.k.length = 16
    /\ call.k.value[2] % 32 # 0

\* C9: for every key p and every token t of a valid branch factor (a digit
\* below that branch factor, as Key.Token and NewToken's callers produce),
\* p.Append(t).HasPrefix(p) and p.Append(t).HasStrictPrefix(p) are true.
C9_AppendHasPrefix ==
    call.op = "Append" =>
        /\ HasPrefix(call.out, call.k)
        /\ HasStrictPrefix(call.out, call.k)

\* C9 witness: a 2-bit token appended to a 7-bit key with a set last bit, so
\* that the result spills into a second byte, has the key as strict prefix.
C9_Witness ==
    /\ call.op = "Append"
    /\ call.k.length = 7
    /\ call.k.value[1] = 254
    /\ call.t = [value |-> 3, length |-> 2]
    /\ HasStrictPrefix(call.out, call.k)

\* The w bits of key from bit o on, as a number.
BitsAt(key, o, w) == BitsValue(SubSeq(Bits(key), o + 1, o + w))

\* C10 as stated: for every key k, width w in {1,2,4,8} and offset o with
\* o + w <= k.Length(), also when the w bits cross a byte boundary,
\* k.Token(o, w) is the w bits of k from bit o on, right-aligned.
C10_TokenAtAnyOffset ==
    (call.op = "Token" /\ call.a + call.b <= call.k.length) =>
        call.out = BitsAt(call.k, call.a, call.b)

\* C10 amended: the same for the offsets whose w bits lie within one byte,
\* (o mod 8) + w <= 8, which every offset that is a multiple of w satisfies.
C10_TokenWithinByte ==
    (call.op = "Token" /\ call.a + call.b <= call.k.length
       /\ (call.a % 8) + call.b <= 8) =>
        call.out = BitsAt(call.k, call.a, call.b)

\* C10 witness: ToKey([0b1010_0000]).Take(4).Token(0, 4) = 0b1010.
C10_Witness ==
    /\ call.op = "Token"
    /\ call.k = [length |-> 4, value |-> <<160>>]
    /\ call.a = 0
    /\ call.b = 4
    /\ call.out = 10

\* C11: Token(o, w) with o + w > k.Length() aborts and returns no token
\* value, also when the requested bits lie in the unused part of the last
\* byte of the key.
C11_TokenOutsideAborts ==
    (call.op = "Token" /\ call.a + call.b > call.k.length) => call.out = Panic

Min(a, b) == IF a <= b THEN a ELSE b

Max(a, b) == IF a >= b THEN a ELSE b

\* The bits of the last byte of key beyond its length are zero.
UnusedBitsZero(key) ==
    key.length % 8 # 0 =>
        key.value[Len(key.value)] % (2 ^ (8 - (key.length % 8))) = 0

\* C12: for every key p and n >= 0, p.Take(n) has length min(n, p.Length()),
\* its bits are the first min(n, p.Length()) bits of p, the unused bits of its
\* last byte are zero, and it equals p when n >= p.Length().
C12_TakeIsBitPrefix ==
    call.op = "Take" =>
        LET m == Min(call.a, call.k.length)
        IN  /\ call.out.length = m
            /\ Len(call.out.value) = bytesNeeded(m)
            /\ Bits(call.out) = SubSeq(Bits(call.k), 1, m)
            /\ UnusedBitsZero(call.out)
            /\ call.a >= call.k.length => call.out = call.k

\* C12 witness: Take(11) of a 16-bit key whose last five bits are not all
\* zero gives 11 bits followed by zeros.
C12_Witness ==
    /\ call.op = "Take"
    /\ call.k.length = 16
    /\ call.k.value[2] % 32 # 0
    /\ call.a = 11
    /\ call.out.length = 11
    /\ call.out.value[2] % 32 = 0
    /\ call.out.value[2] = call.k.value[2] - (call.k.value[2] % 32)

\* C13: for every key p and n >= 0, p.Skip(n) has length
\* max(0, p.Length() - n), its bit i is bit n+i of p, it is the empty key
\* when n >= p.Length(), and p.Skip(0) = p.
C13_SkipIsBitSuffix ==
    call.op = "Skip" =>
        LET m == Max(0, call.k.length - call.a)
        IN  /\ call.out.length = m
            /\ Len(call.out.value) = bytesNeeded(m)
            /\ Bits(call.out) = SubSeq(Bits(call.k), call.a + 1, call.k.length)
            /\ call.a >= call.k.length => call.out = EmptyKey
            /\ call.a = 0 => call.out = call.k

\* C13 witness: ToKey([0xA5, 0xFF]).Skip(3) is the 13 bits 00101111 11111.
C13_Witness ==
    /\ call.op = "Skip"
    /\ call.k = [length |-> 16, value |-> <<165, 255>>]
    /\ call.a = 3
    /\ call.out = [length |-> 13, value |-> <<47, 248>>]

\* C14: k.AppendExtend(t, e) has length k.Length() + t.length + e.Length(),
\* has k.Append(t) as a prefix, and its bits after k.Length() + t.length are
\* the bits of e (Skip of that many bits gives e), also when
\* k.Length() + t.length is not a multiple of 8.
C14_AppendExtendIsConcatenation ==
    call.op = "AppendExtend" =>
        LET n == call.k.length + call.t.length
        IN  /\ call.out.length = n + call.q.length
            /\ HasPrefix(call.out, KeyAppend(call.k, call.t))
            /\ Skip(call.out, n).key = call.q
            /\ Bits(call.out) = Bits(KeyAppend(call.k, call.t)) \o Bits(call.q)

\* C14 witness: an 11-bit extension after 5 bits, so that the extension is
\* shifted across two byte boundaries.
C14_Witness ==
    /\ call.op = "AppendExtend"
    /\ call.k.length + call.t.length = 5
    /\ call.q = [length |-> 11, value |-> <<165, 128>>]
    /\ call.out.length = 16
    /\ Skip(call.out, 5).key = call.q

\* a before b in the byte-wise lexicographic order: at the first index where
\* they differ, a has ended or has the smaller byte.
LexLess(a, b) ==
    \E i \in 1..Len(b) :
        /\ \A j \in 1..(i - 1) : j <= Len(a) /\ a[j] = b[j]
        /\ (i > Len(a) \/ a[i] < b[i])

\* a is before b: smaller buffer, or equal buffers and fewer bits.
KeyBefore(a, b) ==
    LexLess(a.value, b.value) \/ (a.value = b.value /\ a.length < b.length)

ExactlyOne(x, y, z) ==
    (x /\ ~y /\ ~z) \/ (~x /\ y /\ ~z) \/ (~x /\ ~y /\ z)

\* C15: Less and Greater are a strict total order on keys: exactly one of
\* a.Less(b), a = b, a.Greater(b) holds, a.Less(b) iff b.Greater(a), and
\* a.Less(b) iff a's buffer is lexicographically smaller or the buffers are
\* equal and a has fewer bits.
C15_LessGreaterTotalOrder ==
    /\ call.op = "Less" =>
          /\ call.out = KeyBefore(call.k, call.q)
          /\ call.out = Greater(call.q, call.k)
          /\ ExactlyOne(call.out, call.k = call.q, Greater(call.k, call.q))
    /\ call.op = "Greater" =>
          /\ call.out = KeyBefore(call.q, call.k)
          /\ call.out = Less(call.q, call.k)
          /\ ExactlyOne(Less(call.k, call.q), call.k = call.q, call.out)

\* C15 witness: two keys with the same buffer, the shorter one is Less.
C15_Witness ==
    /\ call.op = "Less"
    /\ call.k.value = call.q.value
    /\ call.k.length = 3
    /\ call.q.length = 4
    /\ call.out = TRUE
    /\ Greater(call.q, call.k)

\* The buffer of key has ceil(length/8) bytes and no bit set beyond length.
Canonical(key) ==
    /\ Len(key.value) = bytesNeeded(key.length)
    /\ UnusedBitsZero(key)

KeyBuilders == {"ToKey", "Append", "AppendExtend", "Skip", "Take"}

\* C16: every key reached from ToKey by Append, AppendExtend, Skip and Take
\* has a buffer of ceil(length/8) bytes with all bits beyond its length zero,
\* and two such keys are equal exactly when they have the same length and bits.
C16_KeysAreCanonical ==
    /\ Canonical(k)
    /\ call.op \in KeyBuilders =>
          /\ Canonical(call.out)
          /\ (call.out = call.k) =
                (call.out.length = call.k.length /\ Bits(call.out) = Bits(call.k))
          /\ \A e \in ExtensionKeys :
                (call.out = e) = (call.out.length = e.length /\ Bits(call.out) = Bits(e))

\* C16 witness: a key built by Append and AppendExtend, then cut by Skip: 3 of
\* 9 bits skipped, the 6 bits left-aligned in one byte.
C16_Witness ==
    /\ call.op = "Skip"
    /\ call.k.length = 9
    /\ call.k.value[2] = 128
    /\ call.a = 3
    /\ call.out.length = 6
    /\ call.out.value[1] % 8 = 4
    /\ Canonical(call.out)
    /\ k = call.out

C19_ExhaustionIsAbsorbing ==
    /\ [](ret = "false" => (iter.key = EmptyPath /\ iter.value = EmptyID))
    /\ [][ret = "false" =>
            (ret' = "false" /\ iter'.key = EmptyPath /\ iter'.value = EmptyID)]_vars

\* C19 witness: Next has returned false at least twice in a row on an
\* iterator whose start key is after every key of a proof with children.
C19_Witness ==
    /\ ret = "false"
    /\ calls = 0
    /\ iter.exhausted
    /\ Len(proof) = MaxNodes
    /\ iter.key = EmptyPath
    /\ iter.value = EmptyID

\* The pairs a proof proves: the path of each node with the digest its parent
\* records for it (the empty id for the root), and the path of a node
\* extended by a token of its Children with the digest of that child.
ProvenPairs(pf) ==
    {[key |-> pf[i].KeyPath,
      value |-> IF i = 1 THEN EmptyID
                ELSE pf[i - 1].Children[pf[i].KeyPath[Len(pf[i - 1].KeyPath) + 1]]] :
        i \in 1..Len(pf)}
    \cup UNION {{[key |-> Append(pf[i].KeyPath, t), value |-> pf[i].Children[t]] :
                    t \in DOMAIN pf[i].Children} : i \in 1..Len(pf)}

\* C20: every pair returned by a Next call that returns true is proven by the
\* proof: a node's path with the digest recorded for it in its parent, or a
\* node's path extended by a token present in its Children with that child's
\* digest; no key is returned for a token that has no child entry.
C20_ReturnedPairsAreProven ==
    \A i \in 1..Len(returned) : returned[i] \in ProvenPairs(proof)

\* C18: after any inserts and deletes followed by computeRoot, the proof
\* getProof returns for a key in the trie verifies against the root digest:
\* its first node has the empty path, each node's path is a strict prefix of
\* the next node's, and each node's recomputed digest is the digest its parent
\* records for it, the first node's being the root digest.
C18_ProofOfPresentKeyVerifies ==
    trieCall.op = "getProof" =>
        LET pf == trieCall.proof
        IN  /\ trieCall.ok
            /\ pf[1].KeyPath = <<>>
            /\ \A i \in 1..(Len(pf) - 1) :
                  /\ Len(pf[i].KeyPath) < Len(pf[i + 1].KeyPath)
                  /\ SubSeq(pf[i + 1].KeyPath, 1, Len(pf[i].KeyPath)) = pf[i].KeyPath
                  /\ pf[i].Children[BranchToken(pf, i)]
                        = <<pf[i + 1].KeyPath, pf[i + 1].Value, pf[i + 1].Children>>
            /\ <<pf[1].KeyPath, pf[1].Value, pf[1].Children>> = trieCall.rootID
            /\ pf[Len(pf)].KeyPath = trieCall.key
            /\ pf[Len(pf)].Value # NoValue

\* C18 witness: a proof of three nodes, through a branch node without a value
\* that an insert made by splitting an edge, verifies.
C18_Witness ==
    /\ trieCall.op = "getProof"
    /\ trieCall.ok
    /\ Len(trieCall.proof) = 3
    /\ trieCall.proof[2].Value = NoValue
    /\ Len(trieCall.key) = 2
    /\ Cardinality(PresentKeys(trie)) = MaxTrieKeys

\* The smallest token from lo on that has a child entry in node, and
\* NodeBranchFactor when there is none.
SmallestChildFrom(node, lo) ==
    LET S == {t \in DOMAIN node.Children : t >= lo}
    IN  IF S = {} THEN NodeBranchFactor
        ELSE CHOOSE t \in S : \A u \in S : t <= u

\* C21: after each Next call that returns true, the nextChildIndex entry of
\* the node that was just visited is the smallest token with a child entry
\* greater than the child just returned (the smallest token with a child entry
\* when the node itself was just returned), and NodeBranchFactor when no such
\* child remains.
C21_NextChildIndexIsNextChild ==
    [][ret' = "true" =>
          LET i == iter.nodeIndex
              node == iter.proof[i + 1]
              visitedNode == i \in DOMAIN iter.nextChildIndex
          IN  iter'.nextChildIndex[i] =
                  IF visitedNode
                  THEN SmallestChildFrom(node, iter.nextChildIndex[i] + 1)
                  ELSE SmallestChildFrom(node, 0)]_vars

\* C22 as stated: for every key p of any bit length and every token t of
\* width w whose value is below its branch factor, also when the appended bits
\* cross a byte boundary, p.Append(t) has length p.Length() + w and
\* p.Append(t).Token(p.Length(), w) is the token value.
C22_AppendThenTokenAnyLength ==
    call.op = "Append" =>
        /\ call.out.length = call.k.length + call.t.length
        /\ Token(call.out, call.k.length, call.t.length) = call.t.value

\* C22 amended: the length always grows by w; the token is read back when the
\* appended bits lie within one byte, (p.Length() mod 8) + w <= 8, which every
\* length that is a multiple of w satisfies.
C22_AppendThenTokenWithinByte ==
    call.op = "Append" =>
        /\ call.out.length = call.k.length + call.t.length
        /\ (call.k.length % 8) + call.t.length <= 8 =>
              Token(call.out, call.k.length, call.t.length) = call.t.value

\* C22 witness: a 4-bit token appended to a key of 4 bits fills the byte and
\* is read back.
C22_Witness ==
    /\ call.op = "Append"
    /\ call.k = [length |-> 4, value |-> <<160>>]
    /\ call.t = [value |-> 5, length |-> 4]
    /\ call.out = [length |-> 8, value |-> <<165>>]
    /\ Token(call.out, 4, 4) = 5

\* C23 as stated: for every key k, every prefix key q, every token width w in
\* {1,2,4,8} and every bitsToSkip with 0 <= bitsToSkip <= k.Length(),
\* k.iteratedHasPrefix(q, bitsToSkip, w) returns the same boolean as
\* k.Skip(bitsToSkip).HasPrefix(q).
C23_IteratedEqualsSkipHasPrefix ==
    call.op = "iteratedHasPrefix" =>
        /\ ~call.out.panics
        /\ call.out.out = HasPrefix(Skip(call.k, call.a).key, call.q)

\* C23 amended: the same when bitsToSkip and q.Length() are multiples of w,
\* so that every token compared lies within one byte and within q.
C23_IteratedEqualsSkipHasPrefixAligned ==
    (call.op = "iteratedHasPrefix" /\ call.a % call.b = 0
       /\ call.q.length % call.b = 0) =>
        /\ ~call.out.panics
        /\ call.out.out = HasPrefix(Skip(call.k, call.a).key, call.q)

\* C23 witness: after skipping the first 4 bits of 0xA5 0x80, the two 4-bit
\* tokens 5 and 8 are a prefix, found across the byte boundary.
C23_Witness ==
    /\ call.op = "iteratedHasPrefix"
    /\ call.k = [length |-> 16, value |-> <<165, 128>>]
    /\ call.a = 4
    /\ call.b = 4
    /\ call.q = [length |-> 8, value |-> <<88>>]
    /\ call.out = [panics |-> FALSE, out |-> TRUE]

(***************************************************************************)
(* Claims about the ProposalTxExecutor, checked under SpecExec.             *)
(***************************************************************************)
\* C24 as stated: executing an AdvanceTimeTx never modifies OnAbortState;
\* when it succeeds OnCommitState's timestamp is the transaction's; and
\* whenever the transaction's timestamp is not strictly after OnCommitState's
\* it is rejected with ErrChildBlockNotAfterParent and OnCommitState is
\* unchanged.
C24_AdvanceTimeRejectsWithNotAfterParent ==
    [][(txCall'.op = "AdvanceTimeTx" /\ ~txCall'.tx.IsNil) =>
          /\ onAbort' = onAbort
          /\ txCall'.err = ExecNil => onCommit'.timestamp = txCall'.tx.Time
          /\ txCall'.tx.Time <= onCommit.timestamp =>
                /\ txCall'.err = "ErrChildBlockNotAfterParent"
                /\ onCommit' = onCommit]_vars

\* C24 amended: the same, but a timestamp that is not strictly after
\* OnCommitState's is rejected with ErrChildBlockNotAfterParent only when the
\* transaction carries no credentials and the timestamp is before the Banff
\* fork time; otherwise it is rejected with the error of the earlier check.
C24_AdvanceTimeRejectsNotAfterParent ==
    [][(txCall'.op = "AdvanceTimeTx" /\ ~txCall'.tx.IsNil) =>
          /\ onAbort' = onAbort
          /\ txCall'.err = ExecNil => onCommit'.timestamp = txCall'.tx.Time
          /\ txCall'.tx.Time <= onCommit.timestamp =>
                /\ txCall'.err # ExecNil
                /\ onCommit' = onCommit
                /\ (txCall'.creds = 0 /\ txCall'.tx.Time < backend.BanffTime) =>
                      txCall'.err = "ErrChildBlockNotAfterParent"]_vars

\* C24 witness: an AdvanceTimeTx has moved OnCommitState to the time the
\* pending validator starts and made it current, and OnAbortState still has
\* the parent's time and the validator pending.
C24_Witness ==
    /\ txCall.op = "AdvanceTimeTx"
    /\ txCall.err = ExecNil
    /\ onCommit.timestamp = 2
    /\ onCommit.pending = <<>>
    /\ onAbort.timestamp = 1
    /\ Len(onAbort.pending) = 1
    /\ Len(onCommit.current) = Len(onAbort.current) + 1

\* C25: when a delegator is rewarded, for every share of the validator at
\* most PercentDenominator and every potential reward, the delegator's
\* reward is at most the potential reward, so that the subtraction does not
\* underflow, and the delegator's and the delegatee's rewards add up to the
\* potential reward, whether the product delegatorShares * PotentialReward
\* overflows or not.
C25_RewardSplitAddsUp ==
    (txCall.split.done /\ txCall.split.shares <= PercentDenominator) =>
        /\ txCall.split.rewards.delegatorReward <= txCall.split.potentialReward
        /\ txCall.split.rewards.delegatorReward + txCall.split.rewards.delegateeReward
               = txCall.split.potentialReward

\* C25 witness: a delegator's reward was split on the fallback path, the
\* product having overflowed, and both parts are positive.
C25_Witness ==
    /\ txCall.op = "RewardValidatorTx"
    /\ txCall.err = ExecNil
    /\ txCall.split.done
    /\ ~txCall.split.rewards.optimistic
    /\ txCall.split.shares = 3 * (PercentDenominator \div 10)
    /\ txCall.split.rewards.delegatorReward > 0
    /\ txCall.split.rewards.delegateeReward > 0

\* C26: when a RewardValidatorTx succeeds, OnAbortState's current supply of
\* the removed staker's subnet is its previous value minus the staker's
\* potential reward and OnCommitState's current supply is unchanged; when the
\* subtraction would underflow the transaction returns an error and sets no
\* supply.
C26_AbortSupplyLosesReward ==
    [][(txCall'.op = "RewardValidatorTx" /\ onCommit.current # <<>>) =>
          LET stakerToRemove == onCommit.current[1]
              previous == onAbort.supply[stakerToRemove.SubnetID]
          IN  /\ txCall'.err = ExecNil =>
                    /\ previous >= stakerToRemove.PotentialReward
                    /\ onAbort'.supply =
                           [onAbort.supply EXCEPT ![stakerToRemove.SubnetID] =
                               previous - stakerToRemove.PotentialReward]
                    /\ onCommit'.supply = onCommit.supply
              /\ previous < stakerToRemove.PotentialReward =>
                    /\ txCall'.err # ExecNil
                    /\ onAbort'.supply = onAbort.supply
                    /\ onCommit'.supply = onCommit.supply]_vars

\* C26 witness: a RewardValidatorTx has succeeded for a staker with a
\* positive potential reward, and OnAbortState's supply of the primary
\* network is that much below OnCommitState's.
C26_Witness ==
    /\ txCall.op = "RewardValidatorTx"
    /\ txCall.err = ExecNil
    /\ onCommit.supply[PrimaryNetworkID] = MaxUint
    /\ onAbort.supply[PrimaryNetworkID] = MaxUint - 24
    /\ onAbort.supply[1] = onCommit.supply[1]
    /\ Len(onCommit.current) = Len(onAbort.current)

\* C26 witness of the error: the removed staker's potential reward is above
\* the supply, and the transaction has returned the underflow error.
C26_UnderflowReached ==
    /\ txCall.op = "RewardValidatorTx"
    /\ txCall.err = "ErrUnderflow"
    /\ onAbort.supply = onCommit.supply

\* The weight on the validator at the instant t: its own weight and the
\* weights of its delegators active at t, a current delegator until its
\* NextTime and a pending one from its start time to its end time.
RECURSIVE SeqSum(_)
SeqSum(ws) == IF ws = <<>> THEN 0 ELSE ws[1] + SeqSum(Tail(ws))

WeightsOf(stakers) == [i \in 1..Len(stakers) |-> stakers[i].Weight]

WeightAt(chainState, validator, t) ==
    validator.Weight
    + SeqSum(WeightsOf(SelectSeq(DelegatorsOf(chainState.current, validator),
                                 LAMBDA s : t <= s.NextTime)))
    + SeqSum(WeightsOf(SelectSeq(DelegatorsOf(chainState.pending, validator),
                                 LAMBDA s : s.StartTime <= t /\ t <= s.EndTime)))

\* The weight of the validator and of all of its current delegators.
CurrentTotal(chainState, validator) ==
    validator.Weight + SeqSum(WeightsOf(DelegatorsOf(chainState.current, validator)))

\* C27: given validator.StartTime <= startTime < endTime <= validator.EndTime,
\* GetMaxWeight returns the maximum over the instants of [startTime, endTime]
\* of the validator's weight plus the weights of the delegators active at
\* that instant, and returns an error instead of a value when a sum it forms,
\* the total of the current delegators or the weight at an instant up to
\* endTime, overflows; no subtraction underflows.
C27_MaxWeightOverWindow ==
    weightCall.op = "GetMaxWeight" =>
        LET v == weightCall.validator
            overflows ==
                \/ CurrentTotal(onCommit, v) > MaxUint
                \/ \E t \in 0..weightCall.endTime : WeightAt(onCommit, v, t) > MaxUint
        IN  /\ (weightCall.out.err # ExecNil) <=> overflows
            /\ weightCall.out.err # "ErrUnderflow"
            /\ weightCall.out.err = ExecNil =>
                  /\ \E t \in weightCall.startTime..weightCall.endTime :
                        weightCall.out.val = WeightAt(onCommit, v, t)
                  /\ \A t \in weightCall.startTime..weightCall.endTime :
                        weightCall.out.val >= WeightAt(onCommit, v, t)

\* C27 witness: the maximum lies inside the window, where a pending
\* delegator has started and a current one has not yet left, and is above
\* the weight at both ends of the window.
C27_Witness ==
    /\ weightCall.op = "GetMaxWeight"
    /\ weightCall.out.err = ExecNil
    /\ weightCall.endTime - weightCall.startTime >= 2
    /\ weightCall.out.val > WeightAt(onCommit, weightCall.validator, weightCall.startTime)
    /\ weightCall.out.val > WeightAt(onCommit, weightCall.validator, weightCall.endTime)
    /\ Len(onCommit.pending) > 0


\* An overflow inside the run of changes: the current total fits and the
\* weight at a later instant does not.
C27_OverflowReached ==
    /\ weightCall.op = "GetMaxWeight"
    /\ weightCall.out.err = "ErrOverflow"
    /\ CurrentTotal(onCommit, weightCall.validator) <= MaxUint

====
